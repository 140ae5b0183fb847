# Verification of the tierstack billing engine

TLA+ models of tierstack (`src/`), the TLC configurations that model-check them
on small instances, and TLAPS proofs of the results that matter most. Every
definition that models code is mapped to the lines it stands for in
`PROJECT.json` (`map`); the races and boundaries the code is exposed to are
listed there under `hazards`, with the properties that would catch them.

## The system

tierstack is a billing engine: a PostgreSQL database, an HTTP API
(`apps/api`), a billing worker that runs sweeps on timers
(`workers/billing-worker`), a usage worker, and payment-provider adapters. There
is no broker and no in-memory state that outlives a call, except the
entitlement cache. Everything that can go wrong goes wrong between two
statements of one transaction, or between two transactions of one call:
transactions run at READ COMMITTED and several processes run the same
functions on the same rows.

| Component | State it keeps | Operations | Talks to | What is hard | What makes it correct |
|---|---|---|---|---|---|
| Payment collection (`billing/payments.ts`, `recovery.ts`, `invoice.ts`) | `Invoice`, `PaymentAttempt`, `PaymentMethod` | attempt, apply a result, sync, fail, void | provider, subscription status, dunning | the provider is called between two transactions; four kinds of caller apply results to one attempt; timeouts leave the truth unknown | money recorded was collected, nothing collected is lost, one charge in flight |
| Subscription status (`state-machine.ts`, `transitions.ts`, `subscriptions.ts`) | `Subscription.status`, grace columns | create, cancel, pause, resume, expire | payments, renewal, sweeps | decisions taken on a status read earlier; compare-and-swap losers | the contract below: nobody is served unpaid, the ended stay ended |
| Billing periods and renewal (`subscriptions.ts`, `recovery.ts`, `jobs.ts`) | period columns, `cancelAtPeriodEnd` | renew, schedule and revoke a cancellation | payments, invoices, usage | manual renewal beside the sweep, a batch that has gone stale, recovery rebasing the period | periods follow each other and are billed once, the sweep acts on time and forgets nobody |
| Plan and seat changes (`subscriptions.ts`, `prices.ts`, `proration.ts`) | price, quantity, scheduled changes in `metadata`, price lineages | change plan, change quantity, roll forward | renewal, invoices | a change beside a renewal, a price superseded twice | a period is paid for as it was held, the billing day and interval stay |
| Dunning ladder (`grace.ts`, `settings.ts`, `jobs.ts`) | `dunningAttempts`, `nextRetryAt`, frozen policy | schedule, retry, close grace | payments | the schedule is indexed by count, the limit is compared elsewhere | counts real failures, ends, tries none after the limit, tells the customer |
| Webhook intake (`routes/webhooks.ts`) | `WebhookEvent` | receive, dedupe, apply | payments | redelivery beside a running or crashed first delivery | an event is applied though its first handler died |
| Idempotency keys (`plugins/idempotency.ts`) | `IdempotencyKey` | claim, reclaim, complete, release | every mutating route | a stale claim reclaimed while its owner still runs | one execution at a time, a replay answers for its own body |
| Outbound webhooks (`webhooks-outbound.ts`, `jobs.ts`) | `WebhookDelivery` | enqueue, deliver, back off | merchant endpoints | concurrent sweeps, crash between send and record | every event reaches an enabled endpoint or is given up on after the last attempt |
| Notifications (`notifications/service.ts`) | `EmailMessage` | claim, send, record | email transport | stale claim taken over | at most one email per key while the claim is held |
| Entitlements (`entitlements/*`, `invalidation.ts`) | Redis cache | check, invalidate | subscription status | a read-through write after an invalidation | staleness is bounded by the cache's lifetime |
| Usage and platform metering (`usage/*`, `platform-metering.ts`) | `UsageEvent`, volume enrolments | track, aggregate, flush | API | the pass beside a renewal's flush, duplicate enrolments, late settlements | each event is invoiced once, in its period |
| Price versions, routing, pure arithmetic (`prices.ts`, `pricing.ts`, `proration.ts`, `interval.ts`, `router.ts`) | none | functions | all of the above | short months, rounding, tier boundaries | agree with a reference definition |
| Provider adapters (`payments/paystack`, `payments/mock`) | none | charge, verify, normalize | provider | unreadable replies, unknown states | an unknown state is never a success |
| HTTP, authentication, dashboards, SDKs | sessions, API keys | | | | not modelled: formatting and authorization around the operations above |

## Modules

| Module | What it is |
|---|---|
| `StateMachine` | the status table and the pure decisions on a status |
| `SubscriptionContract` | abstract: what the engine promises about one subscription, in six stages and one outside fact, the set of charges really collected |
| `Payments` | the collection of one subscription's invoices, step by step |
| `MCPayments` | the model values TLC runs `Payments` with |
| `PaymentsProofs` | the inductive invariants of `Payments`: types, recorded money, sign-up, charges in flight, grace periods; and the refinement of the contract |
| `Idempotency` | one idempotency key: the requests that share it, its row, the sweep |
| `MCIdempotency` | three requests, two of them repetitions of each other |
| `IdempotencyProofs` | the inductive invariant of `Idempotency` and its safety theorems |
| `Renewal` | the billing periods of one subscription |
| `MCRenewal` | the model values TLC runs `Renewal` with |
| `RenewalProofs` | the inductive invariant of `Renewal` and its safety theorems |
| `Notices` | customer email: the `EmailMessage` rows and `sendOnce` |
| `Dunning` | the retry ladder of one unpaid invoice, its grace period and its last email; composes `Notices` |
| `MCDunning` | a schedule of two retries |
| `DunningProofs` | the inductive invariant of `Dunning` and `Notices` and its safety theorems |
| `Deliveries` | outbound webhooks: the deliveries of one event and the jobs that send them |
| `Webhooks` | one provider webhook between its redeliveries; applying it enqueues the event of `Deliveries`, which it composes |
| `MCWebhooks` | two handlers, two jobs, one endpoint |
| `WebhooksProofs` | the inductive invariant of `Webhooks` and `Deliveries` and its safety theorems |
| `BillingMath` | dates with anchors, rounding, proration, recurring amounts, as functions |
| `Plans` | what a subscription is charged and for how long: plan and seat changes, the price list and its versions, renewals |
| `MCPlans` | a calendar of short months and a price list |
| `PlansProofs` | theorems about the calendar and proration, the inductive invariant of `Plans` and its safety theorems |
| `UsageMath` | allowances, blocks and capped fees, as functions |
| `Metering` | usage events, the platform's scheduled pass, the flush of a renewal, and the usage it invoices |
| `MCMetering` | a merchant with two enrolments |
| `MeteringProofs` | the inductive invariant of `Metering`, its safety theorems, and a theorem about blocks |
| `EntitlementRules` | `resolveEntitlement`, as a function |
| `Entitlements` | the cache in front of it: checks, changes, invalidations |
| `MCEntitlements` | the definitions a plan and an override may hold |
| `EntitlementsProofs` | the inductive invariant of `Entitlements`, its safety theorems, and theorems about `resolveEntitlement` |

`Payments` and `Renewal` look at the same subscription from two sides and share
`StateMachine`. `Payments` has every race on the status and on the money and
lets a renewal begin at any time; `Renewal` has the clock, the periods and the
races on them, and takes what `Payments` is about in one step (a charge is
pending, collected or declined; a pause or a lapse is atomic). `Dunning` has the
days, the counts and the retry dates of an invoice; `Plans` has what a period
costs and when it ends, and `Metering` the usage it closes with; both begin and
commit a renewal as `Renewal` does. `Webhooks` is how a result reaches
`applyPaymentResult`, and how what it did reaches the merchant. A key of
`Idempotency` guards one call of a route, whatever operation the route runs.

### `Payments`: state and steps

| Variable | Code |
|---|---|
| `sub` | `Subscription`: `status`; `gracePolicy`, the failure action of the frozen policy snapshot; `graceOver`, whether `gracePeriodEnd <= now` |
| `tokenized` | the customer has an `ACTIVE` `PaymentMethod` |
| `failureAction` | `BillingSettings.failureAction` now |
| `invoice` | per invoice, its status and `amountPaid` in units of its total |
| `attempt` | per attempt, its invoice, its status and whether `createdAt` is less than five minutes ago |
| `charge` | what happened at the provider: the truth nobody in the engine sees directly |
| `worker` | one call of `attemptInvoicePayment` (callers) or of `applyPaymentResult` by a webhook, a sweep or a sync (settlers): where it is, and what it read earlier |
| `mover` | a request or sweep between reading the status and committing its change |

A step is what one transaction commits, or a read whose value is used after
other processes may have committed. `attemptInvoicePayment` is
`LoadInvoice` (the unlocked read and `assertPayable`), `CreateAttempt` or
`RefuseAttempt` (the check-then-create under the advisory lock),
`ProviderReceives` then `ProviderAnswers`, or `ProviderRefuses` or
`ProviderTimesOut`; `CatchError` is its catch block, with the failover to the
next rail, and `HandlePaymentFailure` the transaction after the loop.
`applyPaymentResult` is `BeginApply` (the reads and the terminal check),
then `ApplyPending`, `ApplyFailure` (with `failInvoiceInTransaction`, `Lapsed`),
or `ReadInvoice` and `CommitPayment`; its transaction rolls back in
`RollBackPayment` and `FailureLost` when the subscription's compare-and-swap is
lost. The row lock an uncommitted update of an attempt holds is `RowFree`.
Settlers begin with `WebhookArrives`, `SyncPaymentAttempt` or `Reconcile`.
Status changes read and decide in one step (`CancelSubscription`,
`PauseSubscription`, `ResumeSubscription`, `ExpireGracePeriod`,
`ExpireIncomplete`) and commit in another (`ApplyTransition`, `TransitionLost`);
`BeginVoid` and `CommitVoid` are `voidInvoice`. A renewal reads under an
advisory lock that only renewals take (`BeginRenewal`) and commits an invoice or
a scheduled cancellation (`CommitRenewal`, `CancelAtPeriodEnd`), or loses its
compare-and-swap (`RenewalLost`). Any worker may `Crash` at any
step.

`IssueProration` is the invoice a `changePlan` or `changeQuantity` issues and
finalizes; neither takes the renewal's lock, and a seat change asks for no status
at all. `late` marks an invoice issued to a subscription that is `EXPIRED` by
then.

What is abstracted: an invoice's total is one unit and partial amounts are the
answer `SHORT`; the attempt status `CANCELED` is merged into `FAILED`, since what
tells them apart is the count `dunningAttempts`, which is `Dunning`'s; `PAST_DUE`
between two transitions of one transaction is not a state; the retry columns of the
invoice, the period columns and `cancelAtPeriodEnd` are other modules' (`Renewal`
and `Dunning`), so a renewal may begin at any time and may find a cancellation
scheduled, and the renewal job's own closing of a trial it could not collect is
`Renewal`'s; which method and which rails a call picks is reduced to whether a
stored method exists and to the number of rails. A payment may or may not come with
a reusable token, and a provider may answer anything the adapters' status tables can
produce. `FAILED` counts as settled in `CollectedIsSettled`: the attempt has come to
an end, although in the case of `failed_success` to the wrong one.
`OneChargeInFlight` speaks of unknown outcomes younger than five minutes, as the
lock's check does: a retry after the window, and a second charge beside an open
checkout, are what the code permits.

### `Idempotency`: state and steps

`row` is the `IdempotencyKey` row of one organization and key, with the request that
inserted it (`by`), the one whose response it holds (`author`), the body it was
inserted for, and its two clocks: `age` since it was created and `left` until
`expiresAt`. `phase` is where each request is, `seen` the id of the stale row it has
decided to delete, `age` how long its handler has been running, `answer` what it was
told. `late` becomes true when a handler has run for longer than the five minutes
after which its row is taken for abandoned.

`Lookup` is the read in `withIdempotency` with its four ways on; `Reclaim` the
delete by id of a stale row, `Create` the insert and its uniqueness conflict,
`Handle` the route under the key, `Complete` and `Release` the two ways the
route gives the key back, both by key and not by row. `StatementFails` is one of
these statements failing where the code swallows the error, `Crash` a process
death, `Sweep` the hourly deletion of expired keys.

A body stands for what `requestHash` hashes: the method, the pattern of the
route and the JSON body, and not the parameters in the path
(`idempotency.ts:67-68`). Two calls that differ in the path alone, such as the
payments of two invoices, have one body here and in the code, so what
`ReplayFitsTheBody` says of a replay is no more than the hash gives. A late
completion may also put its response in the place of its successor's to the same
body; `CompletedIsKept` is about the row and not about whose answer it holds.

### `Renewal`: state and steps

| Variable | Code |
|---|---|
| `sub` | `status`, `currentPeriodStart`, `currentPeriodEnd`, `cancelAtPeriodEnd` |
| `invoice`, `issued` | the recurring invoices in the order they were issued: status, billing period, and what became of the charge at the provider |
| `worker` | a run of the renewals job (with the `now` it began with) or a `POST /renew`, and what it read under the lock |
| `settler` | a payment between the reads of `applyPaymentResult` and its commit |
| `rebased` | whether a recovery from `UNPAID` has ever moved the period |

`Select` puts the subscription into a batch; `BeginRenewal` takes the advisory
lock and reads the row, or `SkipRenewal` finds it no longer due; the
transaction ends in `OpenPeriod`, `CancelAtPeriodEnd` or `RenewalLost`. The
collection that follows is `StartCharge`, then `Collect` when
`attemptInvoicePayment` returns and `CollectFails` when it throws, with the
sweep's closing of a trial. A sweep starts again for ever, a request is answered
once. `BeginSettle` and `Settle` are a payment: they do not take the lock, and
they write the period only for a subscription that is `UNPAID`.

Left out: what an invoice contains, the price and its interval (one interval for
the whole run) and the anchor day, which are `Plans`' and `Metering`'s; voiding;
and the first invoice of a sign-up, which is paid when the story begins.

### `Dunning` and `Notices`: state and steps

`invoice` has `status`, `dunningAttempts` and `nextRetryAt` of one invoice, `sub`
its subscription's status and `gracePeriodEnd`, `attempt` the rows of
`PaymentAttempt` in the order they were `made`, `sweep` each run of
`runDunningRetries` with the count it listed the invoice with. Time is in days.
`failInvoiceInTransaction` reads the failed attempts and writes the invoice
without a lock, so a failure is two steps: `Declined` or `Canceled` (the attempt
is still unwritten, and a cancelled one is not counted) or `Throws` and
`HandleFailure` (it is `FAILED` already) read and decide (`Decision`),
`CommitFailure` or `FailureLost` end the transaction. When it is rolled back
inside the provider call, the catch of `attemptInvoicePayment` writes `FAILED`
and goes on to `HandleFailure`; a webhook or reconciliation leaves the attempt as
it was. `FailureAbandoned` is the death of the process that made the call, before
the failure is recorded or between recording it and applying the policy.
`Select`, `GiveUp`, `Retry` and `RetryRefused` are the sweep. `Paid`,
`CheckoutOpened` and `TimedOut` are the other answers, from the caller, a
webhook or reconciliation. `ExpireGracePeriod`, `ExpireIncomplete` and `Cancel` are one
step each: their races, and the voiding of an invoice by hand, are in `Payments`.
What they do meet here is a failure in flight, which then loses its
compare-and-swap; the invoice of a canceled subscription stays open, and its ladder
goes on.

`Notices` has the row of a message, what each run of the job is at (`mailer`)
and what reached the `inbox`. `sendOnce` is `ReadMessage` or `Suppress` or
`Contended`, `Claim`, the provider's answer (`Accepted`, `Refused`,
`AnswerLost`) and the record of it (`RecordSent`, `RecordFailed`). `Dunning`
composes it for the dunning-exhausted message: `FindExhausted` finds it due,
`OpenPayLink` or `Render` puts a checkout into it, which is an attempt on the
same invoice. A run may `Die` anywhere; `ClaimGrowsStale` is `STALE_CLAIM_MS`.

### `Webhooks` and `Deliveries`: state and steps

`event` is the `WebhookEvent` row, `handler` where each request of
`POST /webhooks/:provider` is. A request looks the row up (`LookUp`, or
`AnswerDuplicate`), records it (`Record`, `RecordConflicts`), applies the result
(`Apply`, which enqueues a delivery for each endpoint that is enabled: `Enqueue`)
or fails (`Throws`), and marks the row (`MarkProcessed`, `MarkFailed`).
`overlooked` remembers a 2xx given for an event that somebody else was taken to
be processing.

`delivery` has the `WebhookDelivery` row per endpoint, `job` the list of each
delivery job with the endpoints as they were. `ListDue` takes the list,
`FindDisabled`, `PostAccepted`, `PostRefused` and `PostAnswerLost` are the call,
`ReadDelivery` and `WriteDelivery` are `recordDeliveryAttempt`, which finds the
row gone (`RowGone`) or throws (`RecordThrows`). `doubtful` is history: the
endpoints that may have taken the event while the row does not say so.

### `Plans` and `BillingMath`: state and steps

`price` is the price list (`made` rows of it), `sub` the subscription: price,
quantity, period, `billingAnchorDay`, trial end, pin. A day is the unit of time
and an arbitrary calendar (`FirstDay`) gives the months. `changePlan` and
`changeQuantity` read and compute (`BeginPlanChange`, `BeginSeatChange`) and
write (`CommitChange`), or note the change for later (`ScheduleChange`).
`updatePrice` counts the subscriptions bound to the price and computes
(`BeginEdit`), then edits in place or adds a version (`CommitEdit`), or sets the
active flag only (`SetActive`). `renewSubscription` resolves the version to bill
(`CurrentPrices`, `CanRollForward`, `BillingPrices`) and opens the period
(`BeginRenewal`, `CommitRenewal`); only for a trial it cannot charge does it
compare the status (`RenewalLost`). A lapsed subscription goes `UNPAID` (`Lapse`)
and is recovered by a payment, of today or of some days ago (`BeginRecovery`,
`CommitRecovery`, `RecoveryLost`): `planPaymentRecovery` gives it a new period and
a new anchor, without the renewal's lock. `TrialEnds` is a paid invoice that makes
a trial `ACTIVE` early, and `owed` whether a trial has such an invoice. `ledger`
is history: what the current period was invoiced, and the value of what the
subscription held on each day of it; and so is `day`, the billing day it was last
given, by the sign-up, the end of its trial or a recovery.

### `Metering` and `UsageMath`: state and steps

`event` is the `UsageEvent` table by `(organizationId, eventId)`, `payment` the
merchant's attempts (`TAKEN` is a payment the provider has and the platform has not
recorded), `sub` its enrolments, `bills` the usage lines issued. The scheduled pass
reads (`PassReads`) and inserts (`PassWrites`). A renewal reads its row and the
version of the price it will bill (`BeginRenewal`), flushes (`Flush`), and reads the
usage, invoices and moves the period (`CommitRenewal`). The flush writes onto the
meter of the row's price, and the usage is read from the meter of the version
billed. Flush and pass choose the enrolment that meters by different rules: the
flush takes the oldest (`Canonical`), and does nothing if its meter is archived; the
pass takes the oldest whose meter is in use (`FirstSeen`). `EditPrice` versions a
price onto another meter (`offer`), `ChangePlan` moves the subscription,
`SwitchMeter` archives or restores a meter; `moved` remembers the enrolments whose
price has been given another meter. What a renewal inserts is hidden until it
commits, and an insert of the same key waits for it (`Held`). `Track` is
`trackUsage`.

### `Entitlements` and `EntitlementRules`: state and steps

`facts` are the committed rows an answer rests on, `entry` the copy of them in
Redis, `check` each call of `checkEntitlement`: `Hit` answers from the copy; `Miss`,
`LoadContext`, `LoadRows` and `Store` read, in two queries, fill and answer.
`WriteStatus`, `Announce` and `CommitStatus` are a status change, which drops the
copy before its commit and only in an API process; `Edit` and `DropCopy` are a
route's edit, which drops it afterwards; `ChangePlan` drops nothing. `epoch` and
`replaced` are history: which facts a copy holds and since when they are no longer
true. What a check answers is `Answers` of `EntitlementRules`, with the consumption
read live.

## Runs

| Run | Instance | Shows |
|---|---|---|
| `collecting` | 1 invoice, 2 attempts, 2 callers, 1 settler, 2 rails, two failure actions | types; never two unknown outcomes younger than five minutes on an invoice; a running grace period is not restarted |
| `settling` | 2 invoices, the second of a renewal or a proration, 1 attempt, 1 caller, 1 settler, 1 mover, 1 rail, fairness | recorded money was collected; an expired sign-up owes and has paid nothing of what was issued before; the engine refines `SubscriptionContract`; whatever is collected is settled |
| `double_count` | 2 invoices, 1 attempt, 1 caller, 2 settlers | **violated**: one charge counted twice in `amountPaid` |
| `failed_success` | 1 attempt, 1 mover | **violated**: a call told SUCCEEDED records FAILED |
| `idempotency` | 3 calls (2 repeat each other, 1 reuses the key for another body), stale after 1 tick, expiry after 3, 2 faults, fairness, deadlock checked | one live holder at a time; replays fit the body; stored responses are kept; every call is answered |
| `renewals` | 1 sweep, 1 manual renewal, 1 payment, 1 crash, 2 invoices, instants 0 to 2, fairness | types; periods billed once and in order; the sweep acts when due, closes the trials it cannot collect, and catches up |
| `dunning` | 1 sweep, 1 notifications job, 1 death of a job or a caller, 3 charges of which 1 asked for, 2 retries, days 0 and 1, no stored card, active or a sign-up or canceled any time, fairness | the count is of real failures; the ladder, while every charge comes to a failure or a payment, and the grace period end; the customer is told of the end, twice only if a send was in doubt |
| `webhooks` | 2 handlers, 2 jobs, 1 endpoint, 2 delivery attempts, 1 resend, 1 fault, fairness | what is acknowledged was applied, and is in the end; a delivery comes to an end, and is taken twice only if in doubt |
| `plans` | months of 3, 2 and 3 days, 2 prices and 1 version, 2 seats, sign-up on day 1, trials of 0 and 2 days, 1 lapse, payments heard of up to a day late, 2 changes, 1 edit | the billing day stays, the invoices of a period come to what was held in it, the interval is the customer's |
| `metering` | 1 payment, 1 event, 2 enrolments with meters of their own, the older with two, days 0 to 3, periods of 2, 2 upsets, fairness | what is counted is invoiced once; a flush leaves out nothing that had settled, unless it was metered elsewhere; what settled is metered |
| `late_volume` | 1 payment, 1 enrolment, no upsets | **violated**: a payment recorded late lands in a period already invoiced |
| `entitlements` | 1 check at a time, 2 statuses, 2 settings, 2 plans, 1 override, lifetime 2 ticks, 2 changes, 1 fault | staleness is bounded, an edit that dropped the copy holds, an expired override is not honoured |

Bounds. `MaxAttempts` bounds the attempts ever created, `Invoices` the invoices ever
issued. What `settling` is about needs one attempt, known to a caller and a settler
at once, while a mover loses or wins every compare-and-swap (it starts again after
it commits, so one is enough), and a second invoice, which a renewal or a proration
issues while the first payment and the expiry race. `collecting` has the pair of
attempts on one invoice that a second charge takes, from two callers or from one
that crashed, timed out or failed over; a third attempt would repeat the second, and
the pair is also what it takes for a failure to meet a running grace period. Two
rails make the failover loop go round; two failure actions let the settings differ
from the frozen policy. Symmetry is used for the callers of `collecting`, which no
property tells apart, and in no run with a liveness property. The proofs cover every
number of all of them.

In `idempotency` the third call is what a mismatch takes, and two repetitions
are what a reclaim, a late holder and its successor take; one tick is the five
minutes, three are the 24 hours (all that matters is that the one is shorter), and
two faults let a crash be followed by a failed clean-up. In `renewals` every
interval is one tick, so that two instants hold a trial, its first paid period
and the next; two invoices are the pair a double billing takes. One sweep and
one manual renewal are the two holders a lock keeps apart; a second sweep is
`RenewalProofs`' matter, as is every other number.

In `dunning` two charges are what it takes for failures to be counted by
transactions that overlap, and for a retry to meet a pay link or a payment of the
customer, and a third follows a failure that was abandoned; two retries allow a
schedule with a rung that is reached and one that is not. A refused email is not
sent again there (`MaxEmailAttempts` is 1): what claims a message more than once is
the run that takes over from a dead one. `Answer` bars nothing that a stored card
may answer where there is none, so the run without one has the behaviours of both.
In `webhooks` two handlers are a delivery and its redelivery, two jobs the pair that
has one row on both lists; a second endpoint shares nothing with the first. In
`plans` the months are short and of two lengths: a trial that ends on the third day,
or a recovery paid then, meets a month without one; three price rows are a lineage
of two beside another price; two changes are the pair that overlaps, an edit meets
either of them or a renewal, and the trial is shorter than a month. Other subscribers
than the one modelled may hold a price, which is why `BeginEdit` may make a version
of one it is not on. In `metering` days 0 to 3 are a period, its end and the next;
two enrolments on meters of their own are the duplicate the code takes care of, and
the older has the two meters that a version of its price can tell apart; two upsets
are a lapse and a recovery, a failure and a renewal by hand, or an edited price and
a meter archived. In `entitlements` a tick is half a minute and an entry lives two,
four ticks outlast an entry stored at any change but the last, and the fault is a
failed Redis call or a process that dies between an edit and its invalidation. One
check at a time is enough: what another stores meanwhile is `Store` of the same
shape, and the race is of a check with a change.

The terminal states `CANCELED` and `EXPIRED`, the bounds on attempts, invoices,
changes and faults, and the end of time let every model but `Idempotency` stop,
so their runs do not check deadlock; `idempotency` does.

Fairness (`FairSpec`). In `Payments`: time passes (`WF FiveMinutesPass`); a
transaction that has begun ends (`WF ApplyStep`); the reconciliation sweep is run
on a timer for ever and asks about every attempt it lists, so it is not starved
by the other work of its process (`SF Reconcile`, per attempt); and from some
moment on no process crashes. Nothing is assumed of callers, webhooks, customers
or providers. One assumption is stronger than the code: the sweep lists attempts
for 24 hours only (`jobs.ts:236`), so the result holds if the crashes stop and
the row can be recorded within that day.

In `Idempotency` time passes and each request keeps taking its steps; crashes and
failures are bounded, and nothing is assumed of the sweep. In `Renewal` each
worker keeps taking its steps (`WF Renew`): the scheduler starts the job every
hour and a transaction ends. That the hourly batch of a hundred reaches the
subscription is assumed, not modelled; payments and people may stay idle.

In `Dunning` the worker's scheduler starts the retry, grace and notifications jobs
over and over (that their batches reach the invoice is assumed here too), a job and
a transaction that began end, and a provider's client times out; nothing is assumed
of customers, of what a provider answers, or of a charge whose outcome is unknown.
In `Webhooks` the provider redelivers until it has had a 2xx, a request that began
ends, and the delivery job runs every minute; a merchant need not do anything, and
faults are bounded. In `Metering` the pass runs every fifteen minutes and a renewal
that began ends; payments settle, and renewals begin, or not. A `PAUSED` enrolment
is left out of the model: the code does not meter it either (`ENROLLED_STATUSES`,
`platform-metering.ts:114`).

What the properties leave open. `CountsOnlyFailures` bounds `dunningAttempts` from
above: overlapping failures may count fewer than there were. A claim taken over
from a sender that is still alive is a send in doubt (`SentAgainOnlyInDoubt`), and
so are two jobs with one delivery on their lists (`TakenAgainOnlyInDoubt`).
`PeriodPaysForWhatWasHeld` counts a proration that nets below zero as invoiced at
what it comes to; the code keeps the negative total on an invoice it marks `PAID`
and returns it to nobody (`invoice.ts:166-173`). `bills` is a set, which loses
nothing: while no period has been moved the bills of an enrolment differ in their
start (`BillsAreBehind`). `FlushMissesNothing` is about what had settled when the
renewal's transaction began; what settles while it runs is `late_volume`'s case.

## What the violation runs say

The findings are in `PROJECT.json` with the lines they contradict.
`applyPaymentResult` checks the attempt's status on an unlocked read and then
updates it by id, so two settlers can both post the payment (`double_count`): the
subscription is `ACTIVE`, the invoice that of a change of plan or seats, and both
transactions have passed the terminal check before either commits. On an
`INCOMPLETE` subscription the second would lose the compare-and-swap of the recovery
and roll back; an `ACTIVE` one has nothing to recover, and nothing stops it. The
catch block of `attemptInvoicePayment` covers `applyPaymentResult` too: when that
transaction loses the compare-and-swap to a sweep, or finds the invoice voided, a
charge known to have succeeded is written FAILED (`failed_success`). Neither touches
the properties of `settling`: the money recorded has been collected, although it may
be recorded twice. `late_volume` is the payment the provider takes at 23:58 and the
platform records at 00:05: if the renewal runs in between, its flush does not see a
payment that is not `SUCCEEDED` yet, and the next pass dates the event into the
period just invoiced, where no invoice will look again. `FlushMissesNothing` is what
the flush does achieve.

## Other divergences met while modelling

The modules show these as the code has them; no run is spent on them.

- A recovery from `UNPAID` starts its period at the payment, whatever period the
  row is in. `recovery.ts:76-79` argues that it "can never end earlier than the
  one it replaces"; after a `POST /renew` ahead of time, which has no due check,
  it can (`Renewal.Recovered`). The next renewal then bills a window that has an
  invoice already, which is why `PeriodsAreBilledOnce` is claimed only until a
  recovery has moved the period. A renewal that has read its row also overwrites
  a rebase that commits meanwhile.
- A trial whose first period nets to zero (free, purely metered or fully credited)
  becomes `PAST_DUE` with its only invoice `PAID` (`Renewal.CollectFails`),
  although a trial that reaches its end "owes money for the first real period"
  (`subscriptions.ts:445`): no sweep and no payment leads out of it.
- `changeQuantity` looks at no status, and a `changePlan` that has read
  `INCOMPLETE` issues its invoice after `runIncompleteExpiry` has run: an `EXPIRED`
  subscription can owe an invoice of its own (`Payments.IssueProration`), against
  `subscriptions.ts:857-858`. `ExpiredOwesNothing` is about the invoices there
  were when it expired.
- A charge that times out and a checkout nobody completes are no failures: they are
  not counted and leave `nextRetryAt` where it is, so the sweep charges again on each
  of its runs; one that is called off is not counted either and is given the same
  rung again (`Dunning.TimedOut`, `CheckoutOpened`, `Canceled`). The limit is never
  reached, against "must not be retried forever" (`jobs.ts:141-142`). `LadderEnds` is
  claimed while there is none of these.
- A declined first payment of a sign-up gets a `nextRetryAt`
  (`Dunning.CommitFailure`), where `payments.ts:605-607` says "no dunning ladder
  chasing a customer who never had a payment method".
- A trial that is made `ACTIVE` early, by the paid invoice of a plan change, does
  not take its end as its billing day: the first paid period is cut short at the
  old anchor (`Plans.NextAnchor` looks at the status, which is no longer
  `TRIALING`), against `subscriptions.ts:339-343`.
- A trial renewed ahead of time and once more while it is still `TRIALING` takes its
  billing day from the end of the period in between, which a short month may have
  cut: 31 January, 28 February, the 28th (`Plans.NextAnchor`), where
  `interval.ts:66-72` keeps the anchor so that the day does not drift.
  `BillingDayNeverDrifts` calls the day lost there.
- A renewal that has read its row writes its dates over those of a recovery from
  `UNPAID` that commits meanwhile, and keeps the recovery's anchor
  (`Plans.CommitRecovery`, `overtaken`): dates and billing day disagree until the
  period after.
- `invalidation.ts:4-9` counts the worker among the origins of the changes that
  invalidate; only the API registers an invalidator, and it is called before the
  commit. A customer who has paid may be told no until the entry expires, which
  is what `StaleOnlyForAWhile` bounds; a change of plan invalidates nothing.
- `pendingPriceId` and `pendingQuantity` are written and never read: a scheduled
  downgrade or reduction of seats does not take effect (`Plans.ScheduleChange`).
- Two enrolments of a merchant on one meter bill all its usage twice, where
  `platform-metering.ts:512-513` says that one of them is billing nothing;
  `VolumeIsBilledOnce` is claimed of enrolments on meters of their own.
- The flush writes onto the meter of the row's price and the invoice reads that of
  the version billed. When a price has been versioned onto another meter, the
  period's settled volume is on no invoice (`Metering.Flush`, `PeriodUsage`),
  against `platform-metering.ts:532-533`, "whatever this misses, the renewal flush
  picks up"; a change of plan in the middle of a period leaves what was metered
  before it behind in the same way. A version with no meter at all is not modelled.
- `platform-metering.ts:400-402` says that flush and pass resolve the enrolment that
  meters in the same way. The pass skips an archived meter before it has marked the
  customer as seen (`Metering.FirstSeen`), the flush looks for the oldest enrolment
  whatever its meter (`Metering.Canonical`): with an archived meter on the oldest,
  the pass meters on the next one and the flush nowhere.
- Overlapping transactions of `Plans` (two plan changes, a change and a renewal, an
  edit and a change) each credit or bill what they read: its two money properties
  are claimed while no two have overlapped.
- A handler that dies leaves its `WebhookEvent` `PROCESSING`, and a redelivery is
  acknowledged as a duplicate (`Webhooks.AnswerDuplicate`, `overlooked`);
  reconciliation is what still settles the payment (`CollectedIsSettled`).

## What is proved

For every value of the constants that the modules' assumptions allow
(`PaymentsAssumption`, `IdempotencyAssumption`, `RenewalAssumption`,
`DunningAssumption`, `NoticesAssumption`, `WebhooksAssumption`,
`DeliveriesAssumption`, `EntitlementsAssumption`, `MeteringAssumption`,
`CalendarAssumption`, `PlansAssumption`, `CatalogueAssumption`): any
number of invoices, callers, payments, sweeps, requests, attempts, rails, jobs,
handlers, endpoints, checks and enrolments, any interval, any retry schedule, any
lifetime of a cached entry, any stale limit below the expiry, any calendar (months
follow each other and none is empty) and any price list.

| Theorem | Statement |
|---|---|
| `TypeCorrect` (`Payments`, `Idempotency`, `Renewal`, `Dunning`, `Webhooks`, `Entitlements`, `Plans`, `Metering`) | `Spec => []TypeOK` |
| `BooksFollowTheProvider` | `Spec => []RecordedMoneyWasCollected` |
| `ChargesDoNotOverlap` | `Spec => []OneChargeInFlight` |
| `ExpiryIsClean` | `Spec => []ExpiredOwesNothing` |
| `GraceIsUndisturbed` | `Spec => GraceRunsItsCourse` |
| `PaymentsKeepTheContract` | `Spec => ContractKept` |
| `KeyIsExclusive` | `Spec => []OneHolderAtATime` |
| `ReplaysAreFaithful` | `Spec => []ReplayFitsTheBody` |
| `ResponsesAreKept` | `Spec => CompletedIsKept` |
| `NoPeriodTwice` | `Spec => []PeriodsAreBilledOnce` |
| `SweepsWait` | `Spec => SweepActsWhenDue` |
| `TrialsAreCharged` | `Spec => []InvoicedTrialAwaitsACharge` |
| `FailuresAreReal` | `Spec => []CountsOnlyFailures` |
| `LimitHolds` | `Spec => []NothingScheduledPastTheLimit` |
| `SentOnceUnlessInDoubt` | `Spec => []SentAgainOnlyInDoubt` |
| `AcknowledgementsAreTrue` | `Spec => []AcknowledgedIsApplied` |
| `TakenOnceUnlessInDoubt` | `Spec => []TakenAgainOnlyInDoubt` |
| `StalenessIsBounded` | `Spec => []StaleOnlyForAWhile` |
| `EditsHold` | `Spec => []EditsTakeEffect` |
| `OverridesEnd` | `Spec => []ExpiredIsNotHonoured` |
| `UsageIsBilledOnce` | `Spec => []VolumeIsBilledOnce` |
| `FlushIsComplete` | `Spec => []FlushMissesNothing` |
| `BillingDayIsKept` | `Spec => []BillingDayNeverDrifts` |
| `IntervalIsKept` | `Spec => []IntervalIsTheCustomersChoice` |
| `PeriodsArePaidFor` | `Spec => []PeriodPaysForWhatWasHeld` |

And of the functions the modules are built from:

| Theorem | Statement |
|---|---|
| `IntervalAdvances` | `addInterval` leads to a later day of the calendar, and by months to the billing day |
| `MonthsAddUp` | `m` months and then `n` end where `m + n` do, with the anchor kept |
| `ProrationIsExact` | a proration is the change of rate over the days left, to within a unit |
| `UpgradesAreNeverCredited` | rounding line by line never turns a dearer price into a credit, nor a cheaper one into a charge |
| `ProrationAtTheEdges` | the full prices at or before a period's start, nothing at or after its end |
| `BlocksCoverTheOverage` | the blocks charged for cover the overage and one fewer would not |
| `OneAnswer` | one definition per source gives one answer, in whatever order the rows come |
| `OverridesOutrankStanding` | an override in force is answered from alone, whatever the plan, status and settings |
| `AccessIsMonotone` | a worse standing, more consumption or a larger request never opens a feature |
| `FallingBehindOpensNothing` | a paid subscription is answered at least what it would be in any other standing |

`RecordedMoneyWasCollected` is not inductive: a worker may hold an answer of
`SUCCEEDED` it heard long ago. The inductive invariant adds that such an answer is
about a collected charge (`AnswerOK`), that a worker past `checked` has an attempt
and the attempt's invoice (`WorkerOK`, `AttemptOK`), and that a mover's target is a
legal transition of what it read (`MoverOK`). A charge once collected stays so,
which makes the answer stable however stale it is. `ExpiredOwesNothing` and the
contract need one more fact (`Signup`): while the subscription is a sign-up nothing
has been paid; a transaction about to post a payment to an expired one read
`INCOMPLETE`, and so loses its compare-and-swap, or is about an invoice issued since
(`late`); and no renewal is in flight then. The expiry voids whatever is open, a
proration's invoice like the first one; an invoice that is `late` may be open and
may be paid, and the contract holds all the same, because `EXPIRED` is not a status
a payment leads out of. `OneChargeInFlight` is inductive with the types because only
`CreateAttempt` makes an attempt fresh, and its guard is the advisory lock's check.
The refinement maps each action to a step of the contract or to a stutter, with
`collected` the set of charges really collected.

The invariant of `Idempotency` says that a request that runs its handler owns the
row and that the row is no older than the handler, hence too young to be reclaimed;
and that an id some request has decided to reclaim, if it is still the row's, names
a stale or a completed row (`SeenIsStale`), so that a late delete never takes a live
holder's row. All of it, and the theorems on holders and replays, hold only while no
handler has outlived the stale limit (`late`): a slow process and a dead one look
alike, and completion and release go by key. `CompletedIsKept` needs no such
proviso.

The invariant of `Renewal` is the lock's: at most one worker renews
(`LockHeldOnce`), what it read is what the row says unless a recovery has moved
the period (`LockedRowIsFresh`), and a sweep that holds the lock read a period that is
over (`SweepIsDue`). With it a new period begins where the last one billed ends.
`InvoicedTrialAwaitsACharge` takes a second invariant: nothing leads into
`TRIALING`, so whoever read the row while it says so read it too
(`TrialIsSeen`), and the sweep that opened the trial's first period stays with it
until there is a charge, or closes the trial (`TrialIsAttended`). It is about the
sweep only, and while no process has died: a crash after the renewal has
committed, or a manual renewal that does not collect, leaves a trial with its
period advanced and no charge until that period ends.

The invariant of `Dunning` relates a transaction in flight to the attempts it
has read (`DecisionsCount`): what it will write counts at most the attempts that
have failed and, unless it calls its own off, the one it is about to fail, also
when it is rolled back and the client's catch marks that one `FAILED`
(`Counted`); and failed attempts stay failed. Of `Notices` it says
that a message which reached the inbox is `SENT`, or is being recorded by the
run that sent it, or is in doubt; so whoever sends it again found the claim
stale, met another run, or follows one whose answer was lost.

The invariant of `Webhooks` follows an event that an endpoint has taken while
nothing is in doubt (`DoubtIsNoted`): its row is not `PENDING` any more, or the
one job that has it on its list was told so and is about to record it. On the
way in, a request that is about to mark the row has applied the event
(`IntakeFits`).

The invariant of `Entitlements` dates copies: facts that are out of date were
replaced no earlier than a check read them (`ReadInTime`), and the entry it
stored is dropped a lifetime after (`EntryInTime`). An invalidation that comes
between a read and its store is what the history variable `raced` remembers.

The invariant of `Metering` says that an event once recorded stays and is dated by
its payment (`OnlySettledIsWritten`), that a renewal in flight still has the
period of its row until a recovery moves it (`RenewsTheRow`), that after its flush
each payment it knew of has an event (`KnownIsWritten`), and that bills lie
behind the current period (`BillsAreBehind`); so two bills of one enrolment never
share an event. For the flush it adds whose meter a row is written on
(`OnItsMeter`): that of an enrolment's price, which is the one it has always had
or, if it has been moved, one of its versions'. What a flush met and skipped is
therefore on the meter it bills, on another enrolment's, or on another of a price
that was moved.

That a bill charges an amount within the cap (`TypeOK`) needs that the usage is a
number, and `Total` is a fold over a set. The provers cannot instantiate the
library's induction theorems, so the induction is done by a least counterexample:
a fold satisfies its recursive equation (`SumsAgree`, `SumExists`), and among the
finite sets whose total is not a number there would be one with no smaller one
inside it (`SmallestSet`, from the well-foundedness of inclusion). The same
argument gives `PlansProofs` the least element of a set of days (`LeastNatural`),
which is how every day has a month. It needs the sets of payments and tracked
events to be finite, which `MeteringAssumption` says.

The invariant of `Plans` is in parts. `RowsOK` says what is in flight beyond its
type: a renewal's period begins where the row's ends and has a length, and every
price named exists. `BillingDayOK` dates both ends of the row's period by its anchor
(`RowOnDay`), the end of the one a renewal is opening by the anchor its commit will
leave (`RenewalOnDay`), and a recovery's by the anchor it brings (`RecoveryOnDay`).
Both of them write dates, and neither waits for the other: a renewal that a recovery
has overtaken is in none of the three, and its commit loses the day. `IntervalOK`
adds to the row's price what is about to be written: an edit in place is of a price
nobody is bound to, a renewal moves to a version of the same interval. `AccountOK`
weighs the account times the length of the period, so that no division is left in
it: what was invoiced differs from what was held and will be held by at most the
length for each change committed, and a change in flight is worth the difference of
rates over the days left to within the length, which is `ProrationIsExact`. The last
two hold while no two transactions overlapped, as the properties say; the counts and
prices they read go stale otherwise.

Liveness (`CollectedIsSettled`, `EveryCallIsAnswered`, `SweepCatchesUp`,
`LadderEnds`, `GraceEnds`, `CustomerIsTold`, `DeliveryEnds`, `EventIsApplied`,
`SettledIsMetered`) is only model-checked: it needs fairness and `ENABLED`, which
the provers do not handle. That is all that is left to TLC: every invariant and
every other property of a passing run is a theorem. The violated properties are
model-checked counterexamples and nothing is proved of them.

## Not modelled

Signatures, encryption, HTTP, validation, authentication, audit rows, email
texts, dashboards, front ends and SDKs carry no billing state of their own; they
are most of the repository's lines. Currency conversion does not exist in the
code: a currency mismatch is one of the outcomes behind `SHORT`, and a foreign
payment is not metered.

Of the engine itself: which stored method and which rails a charge picks
(stateless tables in `router.ts` and `failures.ts`); the allocation of amounts
over invoice lines, percentages and invoice numbers; the aggregations of a meter
other than the sum; the messages the notifications job derives from state, apart
from the last of the dunning ladder (all go through the `sendOnce` modelled
here); the usage worker, whose marks no bill reads; the audit and history rows.
The scripts under `scripts/` drive the same operations against a deployment.

## Running

`tlc -config MCPaymentsSettling.cfg MCPayments` and likewise for the other
configurations; `tlapm PaymentsProofs.tla`, and likewise `IdempotencyProofs`,
`RenewalProofs`, `DunningProofs`, `WebhooksProofs`, `EntitlementsProofs`,
`MeteringProofs` and `PlansProofs`, for the proofs. With two workers the largest
runs take one to four minutes (`dunning` nearly four, `metering` three, `settling`
two, `plans`, `entitlements` and `collecting` between one and two).
