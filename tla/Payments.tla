------------------------------ MODULE Payments ------------------------------
(***************************************************************************)
(* Collecting the invoices of one subscription: attemptInvoicePayment,     *)
(* applyPaymentResult, syncPaymentAttempt and failInvoiceInTransaction of  *)
(* packages/billing/src/payments.ts, run by any number of concurrent       *)
(* callers (API requests, the portal, the renewal, dunning and             *)
(* notification jobs) and settlers (webhook deliveries, the reconciliation *)
(* sweep, the sync endpoint), beside the operations that move the          *)
(* subscription's status underneath them.                                  *)
(*                                                                         *)
(* A step is what one PostgreSQL transaction, or one stretch of code       *)
(* between two awaits, does at once.  Transactions run at READ COMMITTED:  *)
(* what a transaction has read is kept in worker[p] (or mover[m]) and may  *)
(* be stale when the transaction commits.                                  *)
(***************************************************************************)
EXTENDS StateMachine, Naturals, FiniteSets

CONSTANTS
  Invoices,          \* invoices the subscription may ever have
  NoInvoice,
  FirstInvoice,      \* the one a sign-up without a trial starts with
  MaxAttempts,       \* bound: attempts ever created, numbered in creation order
  Callers,           \* running calls of attemptInvoicePayment
  Settlers,          \* webhook handlers, reconciliation sweeps, sync requests
  Movers,            \* requests and sweeps that change the status or void
  Rails,             \* providers a checkout may be tried on
  FailureActions     \* the failure actions the merchant may choose between

ASSUME PaymentsAssumption ==
  /\ NoInvoice \notin Invoices /\ FirstInvoice \in Invoices
  /\ MaxAttempts \in Nat /\ Rails \in Nat \ {0}
  /\ FailureActions \subseteq FailureAction /\ FailureActions # {}
  /\ Callers \cap Settlers = {}

VARIABLES
  sub,           \* the Subscription row
  tokenized,     \* whether the customer has an ACTIVE stored payment method
  failureAction, \* BillingSettings.failureAction, as configured now
  invoice,       \* the Invoice rows
  attempt,       \* the PaymentAttempt rows
  charge,        \* what really happened at the provider, per attempt
  worker,        \* callers and settlers in flight
  mover          \* status changes and voids in flight

vars == <<sub, tokenized, failureAction, invoice, attempt, charge, worker, mover>>

Attempts == 1..MaxAttempts
Workers == Callers \cup Settlers

\* FAILED stands for CANCELED as well: what tells the two apart is only the
\* number of failures, which is Dunning's.
Terminal == {"SUCCEEDED", "FAILED"}
Unsettled == {"PENDING", "PROCESSING"}
Answer == {"PENDING", "SUCCEEDED", "SHORT", "FAILED"}

SubscriptionRow ==
  [status : Status, gracePolicy : FailureActions \cup {"none"}, graceOver : BOOLEAN]

\* An invoice's total is one unit, or nothing; amountPaid counts how often it was
\* received.  late: issued by a plan or seat change after the sign-up had expired.
InvoiceRow ==
  [status : {"NONE", "OPEN", "PAID", "VOID"}, amountPaid : Nat, late : BOOLEAN]

\* fresh: created less than five minutes ago, and no result stored yet.
AttemptRow ==
  [inv : Invoices \cup {NoInvoice}, status : {"NONE"} \cup Unsettled \cup Terminal,
   fresh : BOOLEAN]

\* short: the provider collected less than was asked, or another currency.
ChargeState == {"none", "open", "collected", "short", "declined"}

WorkerState ==
  [pc : {"idle", "checked", "charging", "answered", "applying", "posting",
         "catching", "failing"},
   inv : Invoices \cup {NoInvoice}, att : Nat, rails : Nat,
   answer : Answer \cup {"none"}, seen : Status \cup {"none"}, paid : Nat]

MoverState ==
  [pc : {"idle", "moving", "voiding", "renewing"}, seen : Status \cup {"none"},
   target : Status \cup {"none"}, inv : Invoices \cup {NoInvoice}]

TypeOK ==
  /\ sub \in SubscriptionRow
  /\ tokenized \in BOOLEAN
  /\ failureAction \in FailureActions
  /\ invoice \in [Invoices -> InvoiceRow]
  /\ attempt \in [Attempts -> AttemptRow]
  /\ charge \in [Attempts -> ChargeState]
  /\ worker \in [Workers -> WorkerState]
  /\ mover \in [Movers -> MoverState]

IdleWorker ==
  [pc |-> "idle", inv |-> NoInvoice, att |-> 0, rails |-> 0,
   answer |-> "none", seen |-> "none", paid |-> 0]

IdleMover == [pc |-> "idle", seen |-> "none", target |-> "none", inv |-> NoInvoice]

NewInvoice(s) == [status |-> s, amountPaid |-> 0, late |-> FALSE]

\* createSubscription: a trial with no invoice, a first invoice to collect, or
\* a first invoice that nets to nothing and activates the subscription at once.
Init ==
  /\ \E s \in {"INCOMPLETE", "TRIALING", "ACTIVE"} :
       /\ sub = [status |-> s, gracePolicy |-> "none", graceOver |-> FALSE]
       /\ IF s = "TRIALING"
          THEN invoice = [i \in Invoices |-> NewInvoice("NONE")]
          ELSE invoice = [i \in Invoices |->
                            NewInvoice(CASE i # FirstInvoice -> "NONE"
                                         [] s = "ACTIVE" -> "PAID"
                                         [] OTHER -> "OPEN")]
  /\ tokenized \in BOOLEAN
  /\ failureAction \in FailureActions
  /\ attempt = [a \in Attempts |->
                  [inv |-> NoInvoice, status |-> "NONE", fresh |-> FALSE]]
  /\ charge = [a \in Attempts |-> "none"]
  /\ worker = [p \in Workers |-> IdleWorker]
  /\ mover = [m \in Movers |-> IdleMover]

-----------------------------------------------------------------------------
\* MUTANT of Lapsed: a failure during a grace period opens another one.
LapsedAgain ==
  IF sub.status \in {"ACTIVE", "TRIALING", "PAST_DUE", "GRACE_PERIOD"}
  THEN [status |-> "GRACE_PERIOD", gracePolicy |-> failureAction, graceOver |-> FALSE]
  ELSE sub

\* failInvoiceInTransaction: a subscription that was being served goes through
\* PAST_DUE into a grace period under the policy of this moment; the invoice's
\* own status is not consulted.  (The retry columns are Dunning's.)
Lapsed ==
  IF sub.status \in {"ACTIVE", "TRIALING", "PAST_DUE"}
  THEN [status |-> "GRACE_PERIOD", gracePolicy |-> failureAction, graceOver |-> FALSE]
  ELSE sub

-----------------------------------------------------------------------------
(* attemptInvoicePayment up to the provider's answer.                      *)

AssertPayable(i) == invoice[i].status = "OPEN" /\ invoice[i].amountPaid = 0

\* The invoice and the payment method are read before any lock is taken.  A
\* stored method is pinned to the rail that issued it, and so tried once.
LoadInvoice(c, i, forceCheckout) ==
  /\ worker[c].pc = "idle"
  /\ AssertPayable(i)
  /\ worker' = [worker EXCEPT ![c] =
                  [IdleWorker EXCEPT !.pc = "checked", !.inv = i,
                     !.rails = IF tokenized /\ ~forceCheckout THEN 1 ELSE Rails]]
  /\ UNCHANGED <<sub, tokenized, failureAction, invoice, attempt, charge, mover>>

\* MUTANT of InFlight: the five-minute window compared the wrong way round.
StaleInFlight(i) ==
  \E a \in Attempts : /\ attempt[a].inv = i
                      /\ attempt[a].status = "PROCESSING"
                      /\ ~attempt[a].fresh

InFlight(i) ==
  \E a \in Attempts : /\ attempt[a].inv = i
                      /\ attempt[a].status = "PROCESSING"
                      /\ attempt[a].fresh

NextAttempt == {a \in Attempts : /\ attempt[a].status = "NONE"
                                 /\ \A b \in 1..(a - 1) : attempt[b].status # "NONE"}

\* Check-then-create under the invoice's advisory lock: one atomic step.
CreateAttempt(c) ==
  /\ worker[c].pc = "checked"
  /\ ~InFlight(worker[c].inv)
  /\ \E a \in NextAttempt :
       /\ attempt' = [attempt EXCEPT ![a] = [inv |-> worker[c].inv,
                                             status |-> "PROCESSING", fresh |-> TRUE]]
       /\ worker' = [worker EXCEPT ![c].pc = "charging", ![c].att = a]
  /\ UNCHANGED <<sub, tokenized, failureAction, invoice, charge, mover>>

\* IDEMPOTENCY_REQUEST_IN_PROGRESS leaves the loop without touching anything.
RefuseAttempt(c) ==
  /\ worker[c].pc = "checked"
  /\ InFlight(worker[c].inv)
  /\ worker' = [worker EXCEPT ![c] = IdleWorker]
  /\ UNCHANGED <<sub, tokenized, failureAction, invoice, attempt, charge, mover>>

\* The request reaches the provider: a stored method is charged on the spot or
\* left pending, a checkout is opened and may already have resolved.
ProviderReceives(c) ==
  /\ worker[c].pc = "charging"
  /\ charge[worker[c].att] = "none"
  /\ \E outcome \in ChargeState \ {"none"} :
       charge' = [charge EXCEPT ![worker[c].att] = outcome]
  /\ UNCHANGED <<sub, tokenized, failureAction, invoice, attempt, worker, mover>>

\* MUTANT of Report: the amount collected is not compared with the amount due.
ReportUnchecked == [open |-> "PENDING", collected |-> "SUCCEEDED", short |-> "SUCCEEDED",
                    declined |-> "FAILED"]

Report == [open |-> "PENDING", collected |-> "SUCCEEDED", short |-> "SHORT",
           declined |-> "FAILED"]

ProviderAnswers(c) ==
  /\ worker[c].pc = "charging"
  /\ charge[worker[c].att] # "none"
  /\ worker' = [worker EXCEPT ![c].pc = "answered",
                              ![c].answer = Report[charge[worker[c].att]]]
  /\ UNCHANGED <<sub, tokenized, failureAction, invoice, attempt, charge, mover>>

\* Any error but a timeout: a refusal, a checkout whose link the customer never
\* receives, or an unreadable reply to a request that may have been carried out.
ProviderRefuses(c) ==
  /\ worker[c].pc = "charging"
  /\ worker' = [worker EXCEPT ![c].pc = "catching"]
  /\ UNCHANGED <<sub, tokenized, failureAction, invoice, attempt, charge, mover>>

\* PROVIDER_TIMEOUT, whether or not the charge landed: the attempt stays
\* PROCESSING and the call ends.
ProviderTimesOut(c) ==
  /\ worker[c].pc = "charging"
  /\ worker' = [worker EXCEPT ![c] = IdleWorker]
  /\ UNCHANGED <<sub, tokenized, failureAction, invoice, attempt, charge, mover>>

-----------------------------------------------------------------------------
(* Settlers: the provider is asked what became of an attempt.              *)

\* verifyPayment: an attempt the provider does not know raises an error.
VerifyPayment(s, a) ==
  /\ worker[s].pc = "idle"
  /\ charge[a] # "none"
  /\ worker' = [worker EXCEPT ![s] = [IdleWorker EXCEPT !.pc = "answered", !.att = a,
                                                       !.answer = Report[charge[a]]]]
  /\ UNCHANGED <<sub, tokenized, failureAction, invoice, attempt, charge, mover>>

\* A webhook names the attempt by its reference, whatever the attempt's state.
WebhookArrives(s, a) == VerifyPayment(s, a)

\* POST /payment-attempts/:id/sync: a terminal attempt is returned as it is.
SyncPaymentAttempt(s, a) == attempt[a].status \in Unsettled /\ VerifyPayment(s, a)

\* MUTANT of Reconcile: the sweep lists open checkouts only.
ReconcilePending(s, a) ==
  attempt[a].status = "PENDING" /\ ~attempt[a].fresh /\ SyncPaymentAttempt(s, a)

\* The sweep syncs the attempts more than five minutes old.
Reconcile(s, a) == ~attempt[a].fresh /\ SyncPaymentAttempt(s, a)

-----------------------------------------------------------------------------
(* applyPaymentResult: one transaction, four kinds of step.                *)

\* An exception rolls the transaction back; only a caller has a catch block.
Thrown(p) == IF p \in Callers THEN [worker[p] EXCEPT !.pc = "catching"] ELSE IdleWorker

\* The attempt, its invoice and the subscription are read without a lock.
BeginApply(p) ==
  /\ worker[p].pc = "answered"
  /\ worker' = [worker EXCEPT ![p] =
       CASE attempt[worker[p].att].status \in Terminal -> IdleWorker
         [] worker[p].answer = "SHORT" -> Thrown(p)
         [] OTHER -> [worker[p] EXCEPT !.pc = "applying", !.seen = sub.status]]
  /\ UNCHANGED <<sub, tokenized, failureAction, invoice, attempt, charge, mover>>

\* A transaction that has updated the attempt holds its row until it ends.
RowFree(p, a) == \A q \in Workers \ {p} : ~(worker[q].pc = "posting" /\ worker[q].att = a)

Applying(p, answer) ==
  /\ worker[p].pc = "applying"
  /\ worker[p].answer = answer
  /\ RowFree(p, worker[p].att)

\* The update names the attempt by id alone.  Its age no longer matters to
\* anyone: only PROCESSING blocks, and a sync may ask at any age.
Settle(a, status) == [attempt EXCEPT ![a].status = status, ![a].fresh = FALSE]

ApplyPending(p) ==
  /\ Applying(p, "PENDING")
  /\ attempt' = Settle(worker[p].att, "PENDING")
  /\ worker' = [worker EXCEPT ![p] = IdleWorker]
  /\ UNCHANGED <<sub, tokenized, failureAction, invoice, charge, mover>>

ApplyFailure(p) ==
  /\ Applying(p, "FAILED")
  /\ attempt' = Settle(worker[p].att, "FAILED")
  /\ sub' = Lapsed
  /\ worker' = [worker EXCEPT ![p] = IdleWorker]
  /\ UNCHANGED <<tokenized, failureAction, invoice, charge, mover>>

\* failInvoiceInTransaction reads the status and swaps it; when somebody moves it
\* in between, the whole transaction rolls back.
FailureLost(p) ==
  /\ Applying(p, "FAILED")
  /\ Lapsed # sub
  /\ worker' = [worker EXCEPT ![p] = Thrown(p)]
  /\ UNCHANGED <<sub, tokenized, failureAction, invoice, attempt, charge, mover>>

\* applyPaymentToInvoice reads the invoice; a voided one throws.
ReadInvoice(p) ==
  /\ Applying(p, "SUCCEEDED")
  /\ LET i == attempt[worker[p].att].inv IN
     worker' = [worker EXCEPT ![p] =
                  IF invoice[i].status = "VOID"
                  THEN Thrown(p)
                  ELSE [worker[p] EXCEPT !.pc = "posting", !.paid = invoice[i].amountPaid]]
  /\ UNCHANGED <<sub, tokenized, failureAction, invoice, attempt, charge, mover>>

\* planPaymentRecovery decides on the status read when the transaction began;
\* applyTransition compares it with the status now.
Recovers(p) == worker[p].seen \in RecoverableStatuses

\* MUTANT of CasFails: the update names the subscription by id alone.
CasNeverFails(p) == FALSE

CasFails(p) == Recovers(p) /\ sub.status # worker[p].seen

Recovered(p) ==
  IF Recovers(p)
  THEN [status |-> "ACTIVE", gracePolicy |-> "none", graceOver |-> FALSE]
  ELSE sub

CommitPayment(p) ==
  /\ worker[p].pc = "posting"
  /\ ~CasFails(p)
  /\ LET a == worker[p].att
         i == attempt[a].inv IN
     /\ attempt' = Settle(a, "SUCCEEDED")
     /\ invoice' = [invoice EXCEPT ![i].status = "PAID", ![i].amountPaid = worker[p].paid + 1]
  /\ sub' = Recovered(p)
  /\ \E token \in BOOLEAN : tokenized' = (tokenized \/ token)
  /\ worker' = [worker EXCEPT ![p] = IdleWorker]
  /\ UNCHANGED <<failureAction, charge, mover>>

RollBackPayment(p) ==
  /\ worker[p].pc = "posting"
  /\ CasFails(p)
  /\ worker' = [worker EXCEPT ![p] = Thrown(p)]
  /\ UNCHANGED <<sub, tokenized, failureAction, invoice, attempt, charge, mover>>

-----------------------------------------------------------------------------
(* The catch block of attemptInvoicePayment.                               *)

\* MUTANT of CatchError: the loop goes round once more after the last rail.
CatchErrorPastLastRail(c) ==
  /\ worker[c].pc = "catching"
  /\ RowFree(c, worker[c].att)
  /\ attempt' = Settle(worker[c].att, "FAILED")
  /\ worker' = [worker EXCEPT ![c] =
                  [IdleWorker EXCEPT
                     !.pc = IF worker[c].rails > 0 THEN "checked" ELSE "failing",
                     !.inv = worker[c].inv, !.rails = worker[c].rails - 1]]
  /\ UNCHANGED <<sub, tokenized, failureAction, invoice, charge, mover>>

\* The attempt is recorded as failed by id alone; a checkout goes on to the next
\* rail, a stored method never does.
CatchError(c) ==
  /\ worker[c].pc = "catching"
  /\ RowFree(c, worker[c].att)
  /\ attempt' = Settle(worker[c].att, "FAILED")
  /\ worker' = [worker EXCEPT ![c] =
                  [IdleWorker EXCEPT
                     !.pc = IF worker[c].rails > 1 THEN "checked" ELSE "failing",
                     !.inv = worker[c].inv, !.rails = worker[c].rails - 1]]
  /\ UNCHANGED <<sub, tokenized, failureAction, invoice, charge, mover>>

HandlePaymentFailure(c) ==
  /\ worker[c].pc = "failing"
  /\ sub' = Lapsed
  /\ worker' = [worker EXCEPT ![c] = IdleWorker]
  /\ UNCHANGED <<tokenized, failureAction, invoice, attempt, charge, mover>>

\* A process dies; its open transaction rolls back, its committed ones stay.
Crash(p) ==
  /\ worker[p].pc # "idle"
  /\ worker' = [worker EXCEPT ![p] = IdleWorker]
  /\ UNCHANGED <<sub, tokenized, failureAction, invoice, attempt, charge, mover>>

-----------------------------------------------------------------------------
(* Requests and sweeps that move the status.  Each reads the row, decides, *)
(* and commits through applyTransition's compare-and-swap on the status.   *)

Decide(m, target) ==
  /\ mover[m].pc = "idle"
  /\ CanTransition(sub.status, target)
  /\ mover' = [mover EXCEPT ![m] = [pc |-> "moving", seen |-> sub.status,
                                    target |-> target, inv |-> NoInvoice]]
  /\ UNCHANGED <<sub, tokenized, failureAction, invoice, attempt, charge, worker>>

CancelSubscription(m) == Decide(m, "CANCELED")

PauseSubscription(m) == Decide(m, "PAUSED")

ResumeSubscription(m) == sub.status = "PAUSED" /\ Decide(m, "ACTIVE")

\* The sweep lists the grace periods that are over, with their frozen policy.
ExpireGracePeriod(m) ==
  /\ sub.status = "GRACE_PERIOD" /\ sub.graceOver
  /\ Decide(m, StatusForFailureAction[sub.gracePolicy])

ExpireIncomplete(m) == sub.status = "INCOMPLETE" /\ Decide(m, "EXPIRED")

\* Only expireIncompleteSubscriptions moves to EXPIRED; it voids what is open.
VoidWithExpiry(target) ==
  [i \in Invoices |-> IF target = "EXPIRED" /\ invoice[i].status = "OPEN"
                      THEN [invoice[i] EXCEPT !.status = "VOID"]
                      ELSE invoice[i]]

\* MUTANT of ApplyTransition: the update names the subscription by id alone.
ApplyTransitionUnchecked(m) ==
  /\ mover[m].pc = "moving"
  /\ sub' = [sub EXCEPT !.status = mover[m].target]
  /\ invoice' = VoidWithExpiry(mover[m].target)
  /\ mover' = [mover EXCEPT ![m] = IdleMover]
  /\ UNCHANGED <<tokenized, failureAction, attempt, charge, worker>>

ApplyTransition(m) ==
  /\ mover[m].pc = "moving"
  /\ sub.status = mover[m].seen
  /\ sub' = [sub EXCEPT !.status = mover[m].target]
  /\ invoice' = VoidWithExpiry(mover[m].target)
  /\ mover' = [mover EXCEPT ![m] = IdleMover]
  /\ UNCHANGED <<tokenized, failureAction, attempt, charge, worker>>

TransitionLost(m) ==
  /\ mover[m].pc = "moving"
  /\ sub.status # mover[m].seen
  /\ mover' = [mover EXCEPT ![m] = IdleMover]
  /\ UNCHANGED <<sub, tokenized, failureAction, invoice, attempt, charge, worker>>

\* voidInvoice: refuses a paid invoice on what it read, then writes by id.
BeginVoid(m, i) ==
  /\ mover[m].pc = "idle"
  /\ invoice[i].status = "OPEN"
  /\ mover' = [mover EXCEPT ![m] = [IdleMover EXCEPT !.pc = "voiding", !.inv = i]]
  /\ UNCHANGED <<sub, tokenized, failureAction, invoice, attempt, charge, worker>>

CommitVoid(m) ==
  /\ mover[m].pc = "voiding"
  /\ invoice' = [invoice EXCEPT ![mover[m].inv].status = "VOID"]
  /\ mover' = [mover EXCEPT ![m] = IdleMover]
  /\ UNCHANGED <<sub, tokenized, failureAction, attempt, charge, worker>>

\* renewSubscription reads the subscription under an advisory lock that only
\* other renewals take.  (When it is due and what it bills are Renewal's.)
BeginRenewal(m) ==
  /\ mover[m].pc = "idle"
  /\ \A n \in Movers : mover[n].pc # "renewing"
  /\ sub.status \notin {"CANCELED", "EXPIRED", "PAUSED", "INCOMPLETE"}
  /\ mover' = [mover EXCEPT ![m] = [IdleMover EXCEPT !.pc = "renewing",
                                                     !.seen = sub.status]]
  /\ UNCHANGED <<sub, tokenized, failureAction, invoice, attempt, charge, worker>>

\* A trial with nothing to charge lapses when its first period opens.
TrialLapses(m) == mover[m].seen = "TRIALING" /\ ~tokenized

\* The next invoice, which may net to nothing, is issued whatever the status has
\* become; only a lapsing trial compares it.
CommitRenewal(m, i) ==
  /\ mover[m].pc = "renewing"
  /\ invoice[i].status = "NONE"
  /\ \E s \in {"OPEN", "PAID"} : invoice' = [invoice EXCEPT ![i].status = s]
  /\ \/ TrialLapses(m) /\ sub.status = "TRIALING" /\ sub' = [sub EXCEPT !.status = "PAST_DUE"]
     \/ ~TrialLapses(m) /\ UNCHANGED sub
  /\ mover' = [mover EXCEPT ![m] = IdleMover]
  /\ UNCHANGED <<tokenized, failureAction, attempt, charge, worker>>

\* A cancellation scheduled for this moment takes the place of the invoice.
CancelAtPeriodEnd(m) ==
  /\ mover[m].pc = "renewing"
  /\ sub.status = mover[m].seen
  /\ sub' = [sub EXCEPT !.status = "CANCELED"]
  /\ mover' = [mover EXCEPT ![m] = IdleMover]
  /\ UNCHANGED <<tokenized, failureAction, invoice, attempt, charge, worker>>

RenewalLost(m) ==
  /\ mover[m].pc = "renewing"
  /\ sub.status # mover[m].seen
  /\ mover' = [mover EXCEPT ![m] = IdleMover]
  /\ UNCHANGED <<sub, tokenized, failureAction, invoice, attempt, charge, worker>>

\* changePlan and changeQuantity issue the invoice of a proration and finalize
\* it, an OPEN one or one that nets to nothing.  A seat change asks for no status
\* at all, and a plan change only for the one it read.
IssueProration(i) ==
  /\ invoice[i].status = "NONE"
  /\ \E s \in {"OPEN", "PAID"} :
       invoice' = [invoice EXCEPT ![i].status = s, ![i].late = (sub.status = "EXPIRED")]
  /\ UNCHANGED <<sub, tokenized, failureAction, attempt, charge, worker, mover>>

-----------------------------------------------------------------------------
(* The provider, the clock and the settings.                               *)

\* A customer completes, fails or abandons an open checkout.
ChargeResolves(a) ==
  /\ charge[a] = "open"
  /\ \E outcome \in ChargeState \ {"none", "open"} : charge' = [charge EXCEPT ![a] = outcome]
  /\ UNCHANGED <<sub, tokenized, failureAction, invoice, attempt, worker, mover>>

FiveMinutesPass(a) ==
  /\ attempt[a].fresh
  /\ attempt' = [attempt EXCEPT ![a].fresh = FALSE]
  /\ UNCHANGED <<sub, tokenized, failureAction, invoice, charge, worker, mover>>

GraceElapses ==
  /\ sub.status = "GRACE_PERIOD" /\ ~sub.graceOver
  /\ sub' = [sub EXCEPT !.graceOver = TRUE]
  /\ UNCHANGED <<tokenized, failureAction, invoice, attempt, charge, worker, mover>>

\* The merchant edits BillingSettings.
ChangeFailureAction ==
  /\ \E f \in FailureActions \ {failureAction} : failureAction' = f
  /\ UNCHANGED <<sub, tokenized, invoice, attempt, charge, worker, mover>>

-----------------------------------------------------------------------------
CallerStep(c) ==
  \/ \E i \in Invoices, force \in BOOLEAN : LoadInvoice(c, i, force)
  \/ CreateAttempt(c) \/ RefuseAttempt(c)
  \/ ProviderReceives(c) \/ ProviderAnswers(c)
  \/ ProviderRefuses(c) \/ ProviderTimesOut(c)
  \/ CatchError(c) \/ HandlePaymentFailure(c)

SettlerStep(s) ==
  \E a \in Attempts : WebhookArrives(s, a) \/ SyncPaymentAttempt(s, a) \/ Reconcile(s, a)

ApplyStep(p) ==
  \/ BeginApply(p) \/ ApplyPending(p) \/ ApplyFailure(p) \/ FailureLost(p)
  \/ ReadInvoice(p) \/ CommitPayment(p) \/ RollBackPayment(p)

RenewalStep(m) ==
  \/ BeginRenewal(m) \/ CancelAtPeriodEnd(m) \/ RenewalLost(m)
  \/ \E i \in Invoices : CommitRenewal(m, i)

MoverStep(m) ==
  \/ CancelSubscription(m) \/ PauseSubscription(m) \/ ResumeSubscription(m)
  \/ ExpireGracePeriod(m) \/ ExpireIncomplete(m)
  \/ ApplyTransition(m) \/ TransitionLost(m)
  \/ \E i \in Invoices : BeginVoid(m, i)
  \/ CommitVoid(m)
  \/ RenewalStep(m)

WorldStep ==
  \/ \E a \in Attempts : ChargeResolves(a) \/ FiveMinutesPass(a)
  \/ GraceElapses \/ ChangeFailureAction

Next ==
  \/ \E c \in Callers : CallerStep(c)
  \/ \E s \in Settlers : SettlerStep(s)
  \/ \E p \in Workers : ApplyStep(p) \/ Crash(p)
  \/ \E m \in Movers : MoverStep(m)
  \/ \E i \in Invoices : IssueProration(i)
  \/ WorldStep

Spec == Init /\ [][Next]_vars

\* The reconciliation sweep comes round for ever and reaches every attempt it
\* lists, whatever else its process is asked to do; a transaction ends; and from
\* some moment on no process dies.
Fairness ==
  /\ \A a \in Attempts : WF_vars(FiveMinutesPass(a))
  /\ \A p \in Workers : WF_vars(ApplyStep(p))
  /\ \A s \in Settlers, a \in Attempts : SF_vars(Reconcile(s, a))
  /\ <>[][\A p \in Workers : ~Crash(p)]_vars

FairSpec == Spec /\ Fairness

-----------------------------------------------------------------------------
(* What must hold however these steps interleave.                          *)

StageOf ==
  [INCOMPLETE |-> "signup", TRIALING |-> "trial", ACTIVE |-> "served",
   PAST_DUE |-> "lapsed", GRACE_PERIOD |-> "lapsed", UNPAID |-> "lapsed",
   PAUSED |-> "paused", CANCELED |-> "ended", EXPIRED |-> "ended"]

Collected == {a \in Attempts : charge[a] = "collected"}

Contract == INSTANCE SubscriptionContract
              WITH Charge <- Attempts, stage <- StageOf[sub.status], collected <- Collected

\* The engine keeps the contract of SubscriptionContract: no interleaving of
\* payments, sweeps and requests serves a sign-up or a lapsed customer before
\* money was collected, or brings an ended subscription back (transitions.ts,
\* planPaymentRecovery, applyPaymentResult's amount check).
ContractKept == Contract!CSpec

\* An attempt is SUCCEEDED, and an invoice records money, only if the provider
\* collected the full amount of a charge made for that invoice: never on a
\* redirect's word, a short payment or a timeout (applyPaymentResult).
RecordedMoneyWasCollected ==
  /\ \A a \in Attempts : attempt[a].status = "SUCCEEDED" => a \in Collected
  /\ \A i \in Invoices :
       invoice[i].amountPaid > 0 => \E a \in Collected : attempt[a].inv = i

\* A sign-up that expired owes nothing and has paid nothing on what it had been
\* billed: the payment that races expireIncompleteSubscriptions either wins
\* outright or leaves no trace, and an invoice of a plan or seat change is voided
\* like the first one.  (Not the invoice of a seat change made after the expiry:
\* changeQuantity issues it, and the customer owes it.)
ExpiredOwesNothing ==
  sub.status = "EXPIRED" =>
    \A i \in Invoices :
      ~invoice[i].late => invoice[i].status # "OPEN" /\ invoice[i].amountPaid = 0

\* A retry that fails during a grace period neither starts it again nor freezes
\* a newer policy into it, whatever the settings say by then
\* (failInvoiceInTransaction, openGracePeriod).
GraceRunsItsCourse ==
  [][sub.status = "GRACE_PERIOD" /\ sub'.status = "GRACE_PERIOD" =>
       /\ sub'.gracePolicy = sub.gracePolicy
       /\ sub.graceOver => sub'.graceOver]_vars

\* While an attempt's outcome is unknown and younger than five minutes, no other
\* attempt on its invoice is: not by a second caller, a retry after a crash or
\* the next rail (attemptInvoicePayment's advisory lock).
OneChargeInFlight ==
  \A a, b \in Attempts :
    /\ a # b /\ attempt[a].inv = attempt[b].inv
    /\ attempt[a].status = "PROCESSING" /\ attempt[b].status = "PROCESSING"
    => ~(attempt[a].fresh /\ attempt[b].fresh)

\* Whatever the provider collects ends up on an attempt with a final status,
\* through crashes and timeouts anywhere in between, unless the invoice was
\* voided meanwhile (runPaymentReconciliation).
CollectedIsSettled ==
  \A a \in Attempts :
    (a \in Collected) ~> \/ attempt[a].status \in Terminal
                         \/ \E i \in Invoices : i = attempt[a].inv /\ invoice[i].status = "VOID"

-----------------------------------------------------------------------------
(* What the source says, and these steps refute.                           *)

\* "Once it has reached a terminal state this is a no-op rather than a second
\* application of the payment to the invoice" (payments.ts, applyPaymentResult):
\* an invoice has received no more payments than the provider collected.
NoDoubleCount ==
  \A i \in Invoices :
    invoice[i].amountPaid <= Cardinality({a \in Collected : attempt[a].inv = i})

\* "It must not be recorded as FAILED (that would let a retry mint a second,
\* unrelated charge on top of one that may have already succeeded)"
\* (payments.ts, attemptInvoicePayment): least of all by a caller that was told
\* the charge succeeded.
SuccessIsNeverRecordedAsFailed ==
  [][\A c \in Callers, a \in Attempts :
       worker[c].att = a /\ worker[c].answer = "SUCCEEDED" /\ attempt[a].status # "FAILED"
       => attempt'[a].status # "FAILED"]_vars

=============================================================================
