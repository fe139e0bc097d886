# Order-to-cash: a TLA+ model of the saga and of the services it drives

This directory holds a TLA+ verification project for the order-to-cash system:
modules translated from the code, TLC configurations that check them on small
instances, theorems checked by TLAPS, and `PROJECT.json`, which ties every
definition to the source lines it stands for.

## The system

Six NestJS services, each with its own MySQL database, exchange *commands* as
NATS request/reply calls and *facts* over Kafka.

| Part | State it keeps | Operations | Talks to | What is hard |
|---|---|---|---|---|
| Orders: aggregate (`domain/order.ts`) | order row: status, cancellation reason | place, transitions, cancel | — | which status changes are legal |
| Orders: saga orchestrator (`saga-fact-handler.ts`, `saga-steps.ts`) | order row, `processed_events` | handle one fact: advance, cancel, ignore, release a late approval | consumes facts, enqueues commands | redelivery, facts out of order between topics, concurrent cancel requests |
| Orders: operator cancellation (`cancel-order.handler.ts`) | order row, `saga_commands` | choose branch, compensate, cancel | gateway | the branch is chosen on a read outside the transaction |
| Orders: durable commands (`saga-command-dispatcher.ts`, store, sweeper) | `saga_commands` rows | enqueue, send, retry, park, dead-letter | Fulfillment, Billing over NATS | lost replies, racing dispatchers, crashes between two writes |
| Fulfillment (`stock-reservation.handler.ts`, `despatch-creation.handler.ts`, `domain/`) | stock rows, reservations, despatches | reserve, release, despatch, replenish | outbox | row locks, stale pre-reads, all-or-nothing over several rows |
| Billing (`credit-*.handler.ts`, `invoice-issue.handler.ts`, `payment-register.handler.ts`) | credit ledger, invoices, payments | hold, release, issue, register payment | outbox | credit limit under concurrent holds, duplicate remittances |
| Outbox and relay (each service) | outbox rows | record with the transaction, claim, publish, stamp | Kafka | at-least-once, order, late sends |
| Saga's consumer group (`idempotent-consumer.ts`, `fact-retry-dispatcher.ts`) | offsets, `processed_events` | fetch, apply once, retry, dead-letter, acknowledge | Kafka | repeated facts, poison facts, restarts |
| Notifications | ledger, sent mails | ledger row, email, compensate, degrade, dead-letter | Kafka, SMTP | an effect outside any transaction, rebalances |
| Projector | one document per order | migrate, upsert, apply once, announce | Kafka, MongoDB, NATS | facts across topics in any order and at once |
| Gateway: live stream and order query | replay buffer, issued-order window | announce, stream, resume | projector, browsers | what a reconnecting browser missed |
| Web: order page | query cache, stream client | load, poll, patch, reconnect | gateway | answers older than frames, end of polling |
| Orders: placement (`place-order.handler.ts`) | order, number counter | place once per request id | gateway, Fulfillment | races for a key and for a number, retries of the unit of work |
| Gateway: commands; web forms and API clients | the open request | place, pay, replenish | Orders, Billing, Fulfillment | deadlines that pass while the command is carried out |
| Gateway: login, lists; contracts, seed, infrastructure | sessions | — | — | library code, data, deployment |

What makes each part correct, and which property says so, is listed under
`hazards` in `PROJECT.json`, at the line where it could go wrong.

## Modules

| Module | Stands for |
|---|---|
| `OrderStatuses` | the status machine of the Order aggregate as operators: `ORDER_TRANSITIONS`, `findTransition`, `mayCancel` |
| `OrderLifecycle` | the aggregate as a specification: what may ever happen to the status and the cancellation reason |
| `SagaSteps` | the orchestrator's step table: fact, precondition, target, command afterwards |
| `OrderSaga` | one order's saga: orchestrator, operator cancellation, durable commands, and the one-order view of Fulfillment and Billing |
| `OrderSagaProofs` | theorems about `OrderSaga` |
| `ReservationContract` | what Fulfillment promises the saga about an order's stock |
| `FulfillmentStock` | stock rows, reservations and despatches with concurrent handlers, row locks and crashes |
| `FulfillmentStockProofs` | theorems about `FulfillmentStock` |
| `CreditContract` | what Billing promises the saga about an order's credit, invoice and payment |
| `BillingCredit` | credit lines, the ledger, invoices, payments and the number sequence with concurrent handlers, locks, retries and crashes |
| `BillingCreditProofs` | theorems about `BillingCredit` |
| `FactTopics` | the fact topics: one per service, one stream per service and order |
| `FactLog` | what the outbox promises a consumer (abstract) |
| `OutboxRelay` | units of work that write outbox rows, and the relay that publishes them |
| `FactConsumer` | a group that applies each fact in a transaction, as `orders.saga` does |
| `Notifications` | the group whose effect is an email |
| `FactDelivery` | composes the five: from a committed row to its effect |
| `FactDeliveryProofs` | theorems about `FactDelivery` |
| `OrderTimeline` | the projector's pure functions: status ranks, `projectFact`, `causalTimelineOrder`, `deltaToPipeline`, the migrations |
| `Projector` | three topics applied to the document of one order |
| `StreamHub` | the gateway's frames, replay buffer and one connection |
| `OrderPage` | the order detail page: query cache, polling rule, stream client |
| `TimelineProofs` | lemmas about the timeline's sort and about the document, for the theorem on `DocumentIsReplay` |
| `ReadSide` | composes the projector, the hub and the page |
| `ReadSideProofs` | theorems about `ReadSide` |
| `SharedKernel` | money, quantity, reference and GLN arithmetic, and what a text box turns into |
| `GatewayCommands` | a command at the gateway: deadline, losses, answer |
| `OrderPlacement` | Orders' responder to `orders.create` |
| `PaymentIntake` | the gateway's invoice scan and Billing's answer to a payment |
| `OperatorPages` | the forms and API clients that ask |
| `FrontDoor` | composes the four |
| `FrontDoorProofs` | theorems about `FrontDoor` |
| `InOrder` | numbers in ascending order, and what a filter keeps of a sequence |
| `CountingLemmas` | what a sum over a finite set is, what a fold over a list is, what an ascending order keeps and where a sort puts things, for proofs about counters, totals, batches, filters and timelines |
| `MC...` | values of the constants for TLC, one module per composition |

### OrderSaga

The state is the order row, the `saga_commands` rows (status and, for
`stock.release`, the reason in the payload), the dead-letter marks, one fact log
per producing service with the consumer group's offset, the dedup records, the
open transactions, the requests in flight, and the order's reservation, credit
and invoice as the responders hold them.

* A transaction of Orders that loads the order and saves it later is two steps
  (`ReadFact`/`HandleFact`, `CancelTxRead`/`CancelTxWrite`,
  `ReadFirstPark`/`RecordSagaFailure`), because `findById` is a plain snapshot
  read and `save` a blind `UPDATE` by primary key. `CancelRead` is the read
  outside any transaction that picks the cancel branch.
* `HandleFact` is the whole of `SagaFactHandler.handle`: the late-approval
  branch, the ignored fact, an advance with its follow-up command, a cancel.
  The dedup record, the order and the command rows commit together; the offset
  moves afterwards, and `Restart` may move it back.
* `DeadLetterFact` is the retry dispatcher giving up: the fact is acknowledged
  having changed nothing, because the handler throws on it or (bounded by
  `MaxLostFacts`) because the database was away.
* `Issue` is one request for a row not yet `sent`, from the fast path, an
  in-line retry or the sweeper. `LoseRequest` loses it. A responder takes one
  request and answers; the reply marks the row or is lost.
* `Park` is a dispatch whose attempts all failed, with the first-park claim.

Taken as given for one order: each producing service's facts reach the consumer
in commit order, at least once. Fulfillment and Billing append their facts for
one order under the row locks of that order's stock or credit line, so commit
order is well defined; a repeated publication carries the same event id and is
dropped by the same dedup record that `Restart` exercises. `FactDelivery` shows
that outbox, relay and consumer provide this.

`Park` claims the dead letter and starts the hook; `FailureReportedOnce` says
that each claim reports its failure at most once. A restart, or a dead letter
that cannot be published, loses the report for good, since the claim is not given
back; `saga-first-park-dead-letter-handler.ts` accepts that window.

Fulfillment and Billing are answered for in one step each here and modelled with
their rows, locks and concurrent requests in `FulfillmentStock` and
`BillingCredit`. `ReservationContract` and `CreditContract` join the two views:
the detailed modules implement them, and so do the responders here
(`RespondersKeepContracts`), so the facts the saga is shown to live with are of
the kind the services publish. That every such behaviour also occurs here is by
reading, not by proof.

### FulfillmentStock

Every request is a process: `Start` (the checks before the transaction),
`PreRead` (the unlocked lookup of the order's stock ids), `LockNext` (one row
lock at a time, in index order), `Load` (the snapshot), then `Reserve`,
`Release`, `Despatch` or `Replenish`, which write everything computed *from the
snapshot* and append the fact, or roll back. `Crash` rolls back at any point.
`ReservationContract` has one step per order and no requests at all; the
refinement mapping reads an order's reservation off its rows.

### BillingCredit

`ledger` holds, per order, what its `credit_items` add up to by type and how
many of them are holds, which is what `summariseLedger` and `evaluateHold` read;
entries are only ever added. `committedExposure` is the SQL sum of
`lockForOrder`, written as the number of minor units tied up.

Every request is a process. `Start` is the part before the transaction,
including the unlocked fast paths of `invoice.issue` and `payment.register`;
`Resolve` is a payment's unlocked lookup of its invoice. `LockLine` is
`lockForOrder`: the row lock and the reads under it, which become the handler's
snapshot. `Hold` and `Release` decide on that snapshot and commit; `Issue` first
takes the number sequence (`LockSequence`). A remittance is judged again under the
lock (`RefusePay`), then its payment row is inserted (`RecordPayment`) and the rest
commits (`Pay`). `Retry` is `DrizzleUnitOfWork.execute` running the whole unit of
work again, `Fail` its last error or a crash; either happens to the requests of
`Unlucky` at any time and to those in a circle of waiting transactions.

Billing's transactions wait for four things:

* the credit line's row, always the first lock;
* the number sequence, the last lock of an invoice;
* the UNIQUE key of `payments.payment_reference`: an insert waits for what becomes
  of another transaction's uncommitted row, and is a conflict if that commits;
* index gaps. `lockForOrder` reads the order's `credit_items`, and
  `lockByOrderReference` an invoice that is not there yet, `FOR UPDATE`; both lock
  the gap where a row of another line's order would go. Two transactions may hold
  one gap, and an insert into it waits for the other (`roomToInsert`). Which orders
  are neighbours in an index is data, the constant `Near`; within one line the row
  lock already excludes the other.

Through the gaps, transactions do wait in circles: two invoices, or an invoice and
a hold, of neighbouring orders on two lines. So no property says that there is no
deadlock. `invoice-payment-deadlock.integration.spec.ts` is about a real
`ER_LOCK_DEADLOCK` on the `payments` insert, and the code's answer is what the
model has: the database rolls one of the circle back, and the unit of work runs it
again, three times at most in the code. `EveryRequestEnds` says that with this
every request that has begun is answered; without the step that breaks the circle
(`GiveWay`) the run finds requests that hang. A circle the model has no lock for,
such as two inserts of one reference that both waited for a third, which was rolled
back, is one of the rollbacks `Unlucky` requests meet.

Two simplifications. The row of an invoice that exists is locked by handlers that
already hold the credit line of the same order, so it cannot be contended on its
own and the line's lock stands for both. The invoice total is the amount that was
held: the command's lines and discount come from the same order as the hold's
amount.

### Fact delivery

A unit of work is the facts it emits (`Record`, `Commit`, `Rollback`); the
aggregates are in the modules of the services. Seqs are given at the insert and
become visible at the commit, so rows of different orders may commit out of seq
order; rows of one order cannot, because the transaction holds the order's row.
A relay's cycle is `Claim` (lowest unpublished rows, locked ones skipped),
`Publish` (the whole batch), `Stamp`. `PublishFails` leaves any subset of the
partitions written, `PublishTimesOut` leaves a send in `flight` that the broker
may carry out at any later time, `RelayCrash` releases the locks.

`FactConsumer` has the ledger row and the effect in one transaction.
`Notifications` cannot: `RecordInLedger` commits the row, `Send` comes after it,
`Compensate` deletes the row when the send failed. `runOnce` is outside the `try`
that compensates, so when it throws (`RecordFails`) the attempt is used up, the last
one by a dead letter, and nothing is undone. `Rebalance` hands the partitions to
another worker while the first is still at work. A fact can be lost there in four
ways, recorded in `abandoned`: a crash between row and email, a compensation that
failed, a ledger commit that landed without being acknowledged, after which the next
attempt finds a duplicate and sends nothing, and a dead letter that could not be
published; and it can be sent twice only if the mail server took a message and then
failed it (`unsure`). In `FactConsumer` a commit that is not acknowledged
(`AttemptFails`) does no harm: row and effect landed together.

A behaviour follows one service's outbox and one group. The outboxes share
nothing, and neither do the groups.

One relay process per service is the deployment the design asks for
(`specs/outbox_and_idempotency/design.md:276`). With two, `ImplementsFactLog`
fails: under `SKIP LOCKED` the second relay claims an order's later fact while
the first holds the earlier one.

### Read side

A fact is its id, type, time, cause and whether it can be summarised. The
document has a status with its rank, the applied keys, the timeline and the
fields that were filled. `UpsertPlaceholder` and `Apply` are the two updates of
`MongoReadModelWriter.apply`; `Apply` is the `findOneAndUpdate` whose filter is
the duplicate check. `causalTimelineOrder` is the sort inside the pipeline, made
of its two stages: `depthFixpoint`, one relaxation round for each entry, and
`sortedWithDepth`, by instant, depth and id. `DocumentIsReplay` states what it
must achieve without it. `Boot` runs the two
migrations first.

An announcement is two messages on two subjects, which come in either order, and
one of which may be lost. Between the two the hub handles no other announcement; the
code's two subscriptions are independent, so frames of other announcements may come
in between there. The hub mints cursors and keeps frames; `stream` is a
connection opened with the last cursor the browser saw. The page's `HandleReady`,
`HandleFrame`, `Respond` and `Poll` are the event handlers of the stream client
and the query; `refetchInterval` keeps its side effects. `Load` is the user's;
after an error on first load it takes the user to try again (`Reload`).

What `ScreenCatchesUp` promises is the document's status in the end. The timeline
is promised only while the page polls: the announcement carries the newest entry
of the sorted timeline, so a fact that comes late and belongs further up is never
announced, and once a terminal status is on screen and polling is over it stays away
until the page is loaded again. The one poll that `useOrderDetail.ts:120-128` adds
after a terminal frame does not change that: the next frame for the order evaluates
the rule again, which finds the poll done and cancels it.

### Front door

A request at the gateway is `resolving`, `asked`, `replied` or `over`;
`RpcTimeout` answers it while the service may still have the command, whose late
reply nobody reads. `OrderPlacement` has the transaction's steps: snapshot
(`begin`), the counter's row lock (`NextNumber`), insert (`PlaceAndSave`),
`Commit`. `LockContention` runs the unit of work again, `CommitUnacknowledged`
commits and fails. `PaymentIntake` pages through invoices that go on being
issued. `OperatorPages` is what the forms check, send and keep.

The design note in `place-order.handler.ts:112-127` says that order references have
no gaps. They have: the loser of a race for a request id finds the winner's order
inside its own transaction and then commits its counter increment, so its number is
burnt (`placing_gap`). `PlacedOnce` says that there are no other gaps. It also states
something a reader might not expect, because the code does it: a draft of the place page becomes two orders when an
answer that promised nothing came in between, since every submit makes a new key.
A placement that loses a request id's race answers with the winner's order.

## Runs

| Run | Shows | Bounds |
|---|---|---|
| `saga_automatic` | no operator: the saga ends, a cancelled order keeps no stock and no credit but what was granted after a refusal, the row follows the aggregate, stock is released before the order is cancelled, a paid order completes | two requests per command; one restart, or a responder that grants a repeated request what it had refused (`OneMishap`) |
| `saga_cancel` | one operator request at any moment, one restart: an accepted compensating cancellation ends and unwinds stock and late credit; the responders keep both contracts | one request per command |
| `saga_adverse` | goods never leave unbacked, an exhausted command is reported at most once, the inductive invariant (with `TypeOK`) | one operator, one dead letter (a command or a fact, `OneDeadLetter`), one restart, responders that decide freely |
| `saga_late_reservation` | violation: a reservation behind a cancellation of a placed order is kept | as small as shows it |
| `saga_cancel_race` | violation: cancelled with the stock still reserved | |
| `saga_lost_update` | violation: a fact transaction writes over `cancelled` | |
| `stock_race` | counters match reservations, units are conserved, an order's lines move together, a despatch exists exactly for consumed stock, every request that has begun is answered, the contract is implemented | two stock rows, two competing orders, repeated reservations and despatches, a release, a delivery, unknown products, crashes |
| `billing_race` | the credit limit, one return of credit, payments and invoices one to one, what a remittance is answered, gap-free numbers, every request that has begun is answered, the contract is implemented | two lines and one that does not exist, five orders, two of them neighbours on different lines, sixteen requests of which one of four sets (`Mixes`) meets in a behaviour; two of them, and those in a circle, may be rolled back and are retried once (the code tries three times) |
| `fact_delivery` | the outbox implements `FactLog`, facts are applied once and in order, notices are accounted for, nothing stays stuck | two orders, up to three facts of one service, batches of two, two faults of any kind, two workers |
| `read_side` | the document is the replay of its facts, resuming loses no frame, the page catches up | five stories: a whole order, the completion of a seeded document, odd facts, and the two ends of an order's life with a page open; one fault, a replay buffer of two |
| `front_door` | one order per request id, no unexplained hole in the numbers, answers that are true, an order charged what the page showed | three requests about placing, two about paying or three about replenishing; two faults; numbers that run out after three; a scan of two pages of one invoice |
| `placing_gap` | violation: the loser of a request id's race burns its number | as `front_door` |

The bounds let each interesting case happen: two requests are enough for "the
first one acted and its reply was lost", one restart for "handled again", one
dead letter for "one step of several failed", two rows and two orders for lost
updates and lock cycles. In `saga_automatic` a refusal that is reconsidered and a
restart are each there, but not in one behaviour. In
`billing_race` the four mixes are one line with every operation and a repeated
hold; two lines that share the number sequence, a payment reference and the gaps
between two neighbouring orders; requests that are refused (foreign currency, an
amount ending in .99, a line that does not exist); and one order's invoice with its
remittance, the same again, another one under a second reference and one that pays
too little, so that a repeat is met before the transaction and under the lock; the simulator's random refusals are left out
there (`Draws`), the proofs have them. `saga_cancel` has one operator request: with two, the
races reported by `saga_cancel_race` and `saga_lost_update` also defeat the
unwinding of an accepted cancellation.

In `fact_delivery` two faults are enough for "failed, and failed again while
recovering" (a late send behind a crash, a rebalance in the middle of a failed
send), and a transaction of two facts beside one of one puts two facts of an
order into one batch and into different ones. In `read_side` the watched stories
are short and the long ones unwatched: a frame depends on the document only
through its last entry and status. The buffer of two is smaller than the frames
of two facts, so a cursor does get lost. In `front_door` the numbers' width, the
safe integer and the page size are small so that the limits are reached, and
requests are interchangeable (`Symmetric`; the run has no liveness property).

`CHECK_DEADLOCK FALSE` is set throughout: an order that is finished, and a set
of requests that have all been answered, have nothing left to do.

### Fairness

`OrderSaga`: the consumer polls, the sweeper retries `pending` and `parked`
rows, responders answer what reaches them, and an operator's request once made
runs to its end; each is a loop of a running process. The last request the bound
allows is never the one lost, which is what "retried until answered" amounts to
under a bound. No fairness is assumed of customers, operators, crashes or a
`rejected` row. `FulfillmentStock`: a handler that has begun keeps going until
it answers or dies, and a row lock is granted when it is free. `BillingCredit`: the
same, and the database rolls back one transaction of every circle.
`FactDelivery`: a process that is up runs its handlers, its relay's timer and its
consumer; nothing makes a late send arrive or a rebalance happen. `ReadSide`: the
consumers, the NATS subscriptions, and the browser's timer, requests and events
go on; nothing makes a user reload or reconnect. Faults are finitely many, so
each recovers from the last. `FrontDoor` has no liveness property: a request that
nobody answers ends at its deadline.

## Proofs

| Theorem | Says | From |
|---|---|---|
| `TypeCorrect` | `OrderSaga`'s `TypeOK` always | the constants' assumption only |
| `BackingInvariant` | `BackingInv` always | same |
| `ShippedIsBacked` | `NeverShipUnbacked` always | `BackingInv` |
| `InvoicedIsDespatched` | `InvoiceOnlyDespatched` always | `BackingInv` |
| `RespondersKeepTheirContracts` | `OrderSaga` implements `ReservationContract` and `CreditContract` for its order | `TypeOK`, `InvoicedOpensHold` |
| `CompletedMeansSettled` | `CompletedIsSettled` always | `BackingInv` and `SettledInv` |
| `FailureIsReportedOnce` | `FailureReportedOnce` always | `ReportInv` |
| `AcceptedCancellationUnwinds` | `AcceptedCancelUnwinds` always, with at most one operator, at least one request per command, no dead letters and no facts lost to the database being away | `SoleWriterInv` and `UnwindInv` |
| `AutomaticStrandsNothing` | `NothingStranded` always, without operators and dead letters, whatever the responders decide | `SoleWriterInv`, `HistoryInv` and `StrandedInv` |
| `AutomaticFollowsLifecycle` | without operators and dead letters `OrderSaga` implements `OrderLifecycle` | `SoleWriterInv` |
| `AutomaticReleasesFirst` | same, `ReleaseFirst` | `SoleWriterInv` |
| `LockingInvariant` | `LockingInv` always | the constants' assumption only |
| `LinesStayTogether` | `AllOrNothing` always | `LockingInv` |
| `StockNeverOversold` | `NeverOversold` always | `LockingInv` |
| `StockLocksAreNotCircular` | `FulfillmentStock`'s `NoLockCycle` always | `LockingInv` |
| `StockImplementsContract` | `FulfillmentStock` implements `ReservationContract` | `LockingInv` |
| `BooksInvariant` | `BooksInv` always | `LockingInv` |
| `CountersAddUp`, `UnitsAreConserved`, `DespatchMeansConsumed` | `CountersMatch`, `UnitsConserved`, `DespatchedIsConsumed` always | `BooksInv` |
| `StockTypeCorrect` | `FulfillmentStock`'s `TypeOK` always: no unsigned counter goes below zero | `BooksInv`, `LockingInv` |
| `CreditInvariant` | `CreditInv` always | the constants' assumption only |
| `BillingTypeCorrect` | `BillingCredit`'s `TypeOK` always | `CreditInv` |
| `ExposureWithinLimit` | `WithinLimit` always | `CreditInv` |
| `CreditIsReturnedOnce` | `CreditReturnsOnce` always | `CreditInv` |
| `PaymentsMatchInvoices` | `OnePaymentEach` always | `CreditInv` |
| `RemittancesAreAnswered` | `RemittanceAnswers` always | `CreditInv` |
| `NumbersHaveNoGaps` | `NumbersGapFree` always | `CreditInv` |
| `BillingImplementsContract` | `BillingCredit` implements `CreditContract` | `CreditInv` |
| `RelayInvariant` | `RelayInv` always, for any number of relays; its clauses on order say `SingleRelay =>` | the constants' assumption |
| `OutboxKeepsPromise` | with one relay per service (`SingleRelay`), the outbox implements `FactLog` | `RelayInv` |
| `FactsTakeEffectOnce` | `EffectsOnce`, the first half of `EffectsOnceInOrder`, always, for any number of relays | `RelayInv` and `ConsumerInv` |
| `FactsTakeEffectInOrder` | with one relay per service, `EffectsOnceInOrder` always | same |
| `NoticesAccountedFor` | `NoticesAccounted` always, for any number of relays | `RelayInv` and `NoticeInv` |
| `DeliveryTypeCorrect` | `FactDelivery`'s `TypeOK` always, for any number of relays | the three invariants above |
| `FrontDoorInvariant` | `FrontDoorInv` always | the constants' assumptions only |
| `OrdersArePlacedOnce` | `PlacedOnce` always | `FrontDoorInv` |
| `AnswersKeepTheirWord` | `AnswersTrue` always | `FrontDoorInv` |
| `DraftsAreChargedAsShown` | `ChargedAsShown` always, when the page has the catalogue's prices (`Catalogued`) | `FrontDoorInv` and `ChargesInv` |
| `ReadSideInvariant` | `ReadSideInv` always | the constants' assumptions (`StoryAssumption`, below) |
| `ReadSideTypeCorrect` | `ReadSide`'s `TypeOK` always | `ReadSideInv` |
| `ResumingSkipsNothing` | `StreamGapless` always | `ReadSideInv` |
| `AcknowledgedFactsAreAccountedFor` | `NothingIsDropped`, the second half of `DocumentIsReplay`, always | `ReadSideInv` |
| `DocumentsReplayTheirFacts` | `DocumentIsReplay` always | `ReadSideInv` and `DocumentInv`, under the same assumptions |

Hypotheses beyond the constants' assumptions are configurations of the code.
`SingleRelay` is the deployment the design asks for; with two relays
`ImplementsFactLog` is false (see *Fact delivery*), while no fact is applied
twice and none that was acknowledged is lost. `AtMostOneOperator` and the
absence of dead letters exclude exactly what `saga_cancel_race`,
`saga_lost_update` and a step given up for good show to defeat the unwinding. Without
`Catalogued` the place page still submits, and counts a line without a typed
price as nothing in the total it shows.

*Goods never leave unbacked.* `NeverShipUnbacked` is not inductive: nothing in
it says why a release of credit and a despatch cannot both be owed. The
strengthening `BackingInv` follows the evidence. A despatch is owed only after
the one approval was handled (`ReleaseExcludesDespatch`); a credit release is
owed only after `stock.released` was published, which is final
(`FactsAreFinal`), or by the late-approval branch, which handles that same one
approval instead of owing the despatch (`OneApproval`, and the dedup record:
`OpenFactIsNext`). Responders act only on rows that exist (`OnlyOwedWork`). It
holds for any number of operators, requests, restarts and dead letters, lost
updates of the order row included: safety of the goods rests on the command
rows and on Fulfillment's reservation, not on the order's status.

*Fulfillment.* `LockingInv` says that handlers have disjoint locks, that a
loaded snapshot equals the rows it covers until its owner commits, and that
handlers of one order need the same rows. Then each commit computes from current
values, the lines of an order move together, and each commit is one step of the
contract.

*Billing.* The limit is not inductive: a handler commits what it decided on a
snapshot, so the proof needs that the snapshot is still true
(`SnapshotIsFresh`), which needs that nobody else writes the line meanwhile
(`LocksExclude`). `LedgerInv` says that an order has at most one entry of each
type, each for the whole amount; that is why a payment returns exactly what was
held and why a second release finds nothing. Counting tied-up units instead of
adding amounts makes the limit a statement about the cardinality of a finite
set: an approval adds the disjoint set of the order's units, a return removes
them, and no induction over a sum is needed.

*Stock books.* `reserved_units` is a sum over orders and `units` one over
deliveries and despatches, and a sum is a recursive function, about which the
provers can prove nothing directly. `CountingLemmas` shows once that such a sum is a
number of tokens, one per unit: if the two differed on some set they would differ
on a smallest one, which is not empty, and taking one element away gives a
smaller. From then on an addition is a disjoint set of tokens. `BooksInv` is that
counters are the sums; each commit computes them from a fresh snapshot
(`LockingInv`), so it changes sum and counter alike.

*Waiting for locks.* `NoLockCycle` says that among any unanswered requests one
waits for none of the others. Every handler of Fulfillment takes its row locks
in one order, by the rank of the product's row. A request that waits therefore waits
for one whose next lock ranks higher than its own, so of any set the one that waits
for the highest lock waits for none of the others. `LockingInv` says what the
argument needs of the handlers under way: the rows they hold rank below the ones
they lack, and nobody keeps a lock past its answer. It is about the locks of
stock rows, the only ones `FulfillmentStock` has: the gaps that the two reads of
`reservations` lock (`stock-item.repository.ts:57-61`, `:92-94`) and the row of the
despatch number (`despatch-number-allocator.ts:45`) are not modelled, so neither the
theorem nor `EveryRequestEnds` speaks of a wait for those. Billing has no such
theorem, because its waits do go in circles; that its requests end all the same is
model-checked.

*Compensation.* `AcceptedCancelUnwinds` speaks of a saga at rest, and
`NothingStranded` of every state with a cancelled order; what makes them true is what
is still owed on the way. A responder that refuses leaves no trace of it and may
grant a repeated request after all; `NothingStranded` says that nothing else leaves
stock or credit with a cancelled order. `UnwindInv` and
`StrandedInv` say, for each resource a cancelled order may hold, which row,
request or fact that is not yet handled will give it back. `ReportInv` ties a
reported failure to the first-park claim that is never given back.

*Outbox.* A stamp that is early and a fact that overtakes another are both ruled
out by one statement about every batch: it is `sendable`, which is to say that
the earlier rows of the same order are in the same batch, or stamped, or were
rolled back. It is true when a relay claims the lowest unpublished rows and
stays true while the batch waits, and while a timed-out send waits in `flight`,
because streams only grow. `StreamsInv` then says that first appearances are in
emission order, which is `FactLog`. The saga's group applies a fact in the
transaction that writes its ledger row, so `ConsumerInv` relates the effects to the
ledger and the offset; that a fact is applied once needs no order of the stream.
That the order is kept follows because a fact behind the offset was answered for,
by an effect or a dead letter, before the later one is reached. For notices the row and the effect are apart: `NoticeInv`
says that an unanswered ledger row has exactly one holder, the worker whose job it
is, so that two workers after a rebalance cannot both send.

*Front door.* Whoever holds the counter's row lock is the only one that writes
orders and what it took is not committed yet; so the committed counter and the
numbers of orders, with those burnt, are one gapless range (`PlacementsInv`,
`OrdersInv`). A draft's second order needs a second request from the same draft,
and an answer "placed" empties the draft (`DraftsInv`). The scan for an invoice
never passes it: invoices are only added in front of the page the scan is at, so
the page it is at starts no later than the invoice (`PaymentsInv`). An answer is
either what the reply said or one that promises nothing (`CallsInv`), and a reply
is true when it is given and stays true.

*Totals.* `ChargedAsShown` compares two programs: the page adds up what each line
comes to, Orders adds up gross amounts and discounts apart and subtracts, and an
amount beyond the safe integers, or of another currency, makes all that follows
invalid. A fold over a list is its sequence of partial sums (`LeftFoldExists`;
`AmountIsSum`, `DiscountIsSum`, `DraftIsSum`). As long as Orders' two partial sums
are valid the page's is their difference, which goes from each line to the next;
and that the total is valid makes every partial sum so (`PlacedAsShown`).
`ChargesInv` says when that applies: the page sends lines whose numbers it could
read, and an order is written only for products there are and with a valid
total. It assumes of the catalogue that its prices are Money (`PlacementAssumption`).

*Live stream.* What a browser that reconnects must get is everything newer than
what it handled, and the hub can only tell when the cursors in its buffer are the
last ones minted, without a gap (`lastMinted`): then what stands behind the
cursor asked for is all there is, and a cursor that is not there says that frames
are missing. From then on `StreamGapless` moves with each step: a new frame is
appended to the buffer and written behind what is written already, the oldest
frame leaves the buffer only, and the frame the browser handles becomes its last
cursor. Nothing is assumed of the buffer's size or of the order in which
announcements come. A fact is acknowledged from `settled`, which an instance
reaches from a fact that is none, from a document that has the key, from an
update that put it there, or from the dead letters; keys and dead letters only
grow (`NothingIsDropped`).

*Timeline.* `DocumentIsReplay` is proved in two parts. The first is about the
sort alone (`TimelineProofs`). After the rounds, every entry is one deeper than
its cause: among the entries that are not settled after round n, if there is one,
one has a cause that is not settled after round n-1 either, so each round leaves
fewer of them, and as many rounds as entries leave none; that needs causes of one
instant that go in no circle. Then `sortedWithDepth` keeps the entries and puts each one
behind those of an earlier instant and behind its cause: instant, depth and id
together are different for different entries, and the place of an entry is the number
of entries before it (`PlacesInOrder` in `CountingLemmas`). The second part is
`DocumentInv`: from the boot on, a document has entries of the story only, each
once and in that order; its keys are the ids of its entries; its status and rank
are those of the entry whose status is furthest; what the entries carry is filled
in. It is inductive because the update that appends an entry raises status and
rank together and sorts again, and because the boot migrations bring a document
from an earlier release into this form. The keys being the ids is what makes a
repeated fact harmless.

`StoryAssumption` says of the story an order goes through what the services make
true: entries have an id, a type, an instant and a cause; causes of one instant
go in no circle, since a fact is caused by one that was there before it; and a
document that is there at the start tells of its own entries, in the form of the
release that wrote it.

The inductive invariants are checked by TLC before they are proved; `BackingInv`
and `LockingInv` stay in a run's configuration, and the others (`CreditInv`,
`BooksInv`, `RelayInv`, `NoticeInv`, `FrontDoorInv`, `ChargesInv`, `ReadSideInv`, ...) can be added to the
configuration of their module's run.

Only model-checked: liveness (the prover has no `ENABLED`) and what a GLN's check
digit is. Every invariant of a passing run is a theorem, for the configurations
its row names. The provers cannot instantiate an induction theorem for an
operator, so inductions here are made by hand, over a recursive function at hand,
from the fact that a set of naturals has a least element (`Induction`).

## Not modelled

* the saga's command backoff: `Issue` may come after any length of time;
* the aggregate's line editing (`addLine`, `removeLine`, `changeLineQuantity`),
  which nothing in the program calls;
* login, tokens, the login throttle and the list pages: library code behind a
  configuration, and queries that change no state;
* contracts, seed data, dashboards, scripts and deployment: data and
  configuration. `specs/shared` is quoted by the properties;
* a consumer group's first start: the notifications group reads from the end of a
  partition it has no committed offset for (`src/apps/notifications/src/main.ts:53`),
  so what was written before is never notified; the model starts every group at
  the first record;
* a reply the gateway cannot decode, which it reports as unavailable although the
  command may have been carried out.

Order lines and amounts are left out of `OrderSaga`, which never reads them: its
Billing takes every order's total to be above zero, since Billing approves a hold
of zero but refuses to invoice it.
