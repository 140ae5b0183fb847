------------------------------ MODULE Renewal ------------------------------
(***************************************************************************)
(* The billing periods of one subscription: renewSubscription as called by *)
(* the renewals sweep and by hand, the payments that keep or rebase the    *)
(* period (planPaymentRecovery), and scheduled cancellation.               *)
(*                                                                         *)
(* A renewal is one READ COMMITTED transaction under an advisory lock on   *)
(* the subscription; a payment's transaction does not take that lock.      *)
(* Both read the row first and write it later, so each is two steps.  The  *)
(* races on the status alone are module Payments' subject; here a lapse    *)
(* or a pause is one step.  A subscription is followed from the moment it  *)
(* is TRIALING, or ACTIVE with its first invoice paid.                     *)
(***************************************************************************)
EXTENDS StateMachine, Naturals, FiniteSets

CONSTANTS
  Interval,      \* the billing interval of the subscription's price, in ticks
  TrialLength,   \* in ticks
  Horizon,       \* bound: the last instant
  MaxInvoices,   \* bound: invoices ever issued
  Sweeps,        \* running renewals jobs, each with this subscription in its batch
  Requests,      \* POST /renew requests
  Settlers,      \* payments being applied
  MaxCrashes     \* bound: process deaths

ASSUME RenewalAssumption ==
  /\ Interval \in Nat \ {0} /\ TrialLength \in Nat \ {0} /\ Horizon \in Nat
  /\ MaxInvoices \in Nat \ {0} /\ MaxCrashes \in Nat
  /\ Sweeps \cap Requests = {}

VARIABLES
  now,
  sub,        \* the Subscription row
  invoice,    \* the Invoice rows
  issued,     \* how many of them exist
  worker,     \* renewals in flight
  settler,    \* payments in flight
  crashes,    \* process deaths so far
  rebased     \* whether a recovery from UNPAID has ever moved the period

vars == <<now, sub, invoice, issued, worker, settler, crashes, rebased>>

Renewers == Sweeps \cup Requests
Invoices == 1..MaxInvoices

\* cancel is cancelAtPeriodEnd.
SubscriptionRow == [status : Status, start : Nat, end : Nat, cancel : BOOLEAN]

\* charge is what happened at the provider, paidAt when it took the money; both
\* are of use while the invoice is open.
InvoiceRow ==
  [status : {"NONE", "OPEN", "PAID"}, start : Nat, end : Nat,
   charge : {"none", "pending", "collected"}, paidAt : Nat]

\* A worker in the middle of something: the time its job started at, what it has
\* read of the row, the invoice it has issued.
Reading == [status : Status, end : Nat, cancel : BOOLEAN]
Unread == [status |-> "INCOMPLETE", end |-> 0, cancel |-> FALSE]
IdleWorker == [pc |-> "idle", at |-> 0, seen |-> Unread, inv |-> 0]
IdleSettler == [pc |-> "idle", seen |-> "INCOMPLETE", inv |-> 0, paidAt |-> 0]

NoInvoice == [status |-> "NONE", start |-> 0, end |-> 0, charge |-> "none", paidAt |-> 0]

TypeOK ==
  /\ now \in Nat
  /\ sub \in SubscriptionRow
  /\ invoice \in [Invoices -> InvoiceRow]
  /\ issued \in 0..MaxInvoices
  /\ worker \in [Renewers -> [pc : {"idle", "selected", "renewing", "collecting",
                                    "charging", "done"},
                              at : Nat, seen : Reading, inv : 0..MaxInvoices]]
  /\ settler \in [Settlers -> [pc : {"idle", "posting"}, seen : Status,
                               inv : 0..MaxInvoices, paidAt : Nat]]
  /\ crashes \in 0..MaxCrashes
  /\ rebased \in BOOLEAN

Bill(status, start, end) ==
  [NoInvoice EXCEPT !.status = status, !.start = start, !.end = end]

\* createSubscription's trial, which has no invoice, or its first period.
Init ==
  /\ now = 0
  /\ \/ /\ sub = [status |-> "TRIALING", start |-> 0, end |-> TrialLength, cancel |-> FALSE]
        /\ invoice = [i \in Invoices |-> NoInvoice]
        /\ issued = 0
     \/ /\ sub = [status |-> "ACTIVE", start |-> 0, end |-> Interval, cancel |-> FALSE]
        /\ invoice = [i \in Invoices |-> IF i = 1 THEN Bill("PAID", 0, Interval) ELSE NoInvoice]
        /\ issued = 1
  /\ worker = [w \in Renewers |-> IdleWorker]
  /\ settler = [s \in Settlers |-> IdleSettler]
  /\ crashes = 0
  /\ rebased = FALSE

Issue(bill) ==
  /\ issued < MaxInvoices
  /\ issued' = issued + 1
  /\ invoice' = [invoice EXCEPT ![issued + 1] = bill]

-----------------------------------------------------------------------------
(* Renewing *)

\* A mutant: the period is over only when its last instant has passed.
OverdueOnly(end, at) == end < at

IsPeriodDue(end, at) == end <= at

\* runRenewals puts the subscription into its batch.
Select(w) ==
  /\ w \in Sweeps /\ worker[w].pc = "idle"
  /\ sub.status \in {"ACTIVE", "TRIALING"} /\ IsPeriodDue(sub.end, now)
  /\ worker' = [worker EXCEPT ![w] = [IdleWorker EXCEPT !.pc = "selected", !.at = now]]
  /\ UNCHANGED <<now, sub, invoice, issued, settler, crashes, rebased>>

\* A mutant: no advisory lock.
NoLock == TRUE

LockFree == \A w \in Renewers : worker[w].pc # "renewing"

\* A mutant: the row is not looked at again under the lock.
CanRenewUnseen(w) == sub.status \notin {"CANCELED", "EXPIRED", "PAUSED", "INCOMPLETE"}

CanRenew(w) ==
  /\ sub.status \notin {"CANCELED", "EXPIRED", "PAUSED", "INCOMPLETE"}
  /\ w \in Sweeps => IsPeriodDue(sub.end, worker[w].at)

Starting(w) == worker[w].pc = IF w \in Sweeps THEN "selected" ELSE "idle"

\* A sweep comes round again; a request is answered once.
Finish(w) ==
  worker' = [worker EXCEPT ![w] = IF w \in Sweeps THEN IdleWorker
                                  ELSE [IdleWorker EXCEPT !.pc = "done"]]

\* The advisory lock, and the row as it is once the lock is held.
BeginRenewal(w) ==
  /\ Starting(w) /\ LockFree /\ CanRenew(w)
  /\ worker' = [worker EXCEPT ![w] = [IdleWorker EXCEPT !.pc = "renewing",
                   !.seen = [status |-> sub.status, end |-> sub.end, cancel |-> sub.cancel]]]
  /\ UNCHANGED <<now, sub, invoice, issued, settler, crashes, rebased>>

\* The sweep finds that the period is no longer due, or may not be renewed.
SkipRenewal(w) ==
  /\ w \in Sweeps /\ Starting(w) /\ LockFree /\ ~CanRenew(w)
  /\ worker' = [worker EXCEPT ![w] = IdleWorker]
  /\ UNCHANGED <<now, sub, invoice, issued, settler, crashes, rebased>>

\* The period columns are written whatever the row says by now; a trial without
\* a stored card lapses by compare-and-swap.  An invoice of zero is born PAID.
OpenPeriod(w, collectable, status) ==
  LET seen == worker[w].seen
      end == seen.end + Interval
      lapses == seen.status = "TRIALING" /\ ~collectable
  IN /\ worker[w].pc = "renewing" /\ ~seen.cancel
     /\ lapses => sub.status = "TRIALING"
     /\ Issue(Bill(status, seen.end, end))
     /\ sub' = [sub EXCEPT !.start = seen.end, !.end = end,
                           !.status = IF lapses THEN "PAST_DUE" ELSE @]
     /\ worker' = [worker EXCEPT ![w] = [IdleWorker EXCEPT !.pc = "collecting", !.inv = issued + 1,
                                           !.seen = [Unread EXCEPT !.status = seen.status]]]
     /\ UNCHANGED <<now, settler, crashes, rebased>>

CancelAtPeriodEnd(w) ==
  /\ worker[w].pc = "renewing" /\ worker[w].seen.cancel
  /\ sub.status = worker[w].seen.status
  /\ sub' = [sub EXCEPT !.status = "CANCELED"]
  /\ Finish(w)
  /\ UNCHANGED <<now, invoice, issued, settler, crashes, rebased>>

\* The transition's compare-and-swap finds another status: all is rolled back.
RenewalLost(w) ==
  /\ worker[w].pc = "renewing"
  /\ worker[w].seen.cancel \/ worker[w].seen.status = "TRIALING"
  /\ sub.status # worker[w].seen.status
  /\ Finish(w)
  /\ UNCHANGED <<now, sub, invoice, issued, settler, crashes, rebased>>

\* attemptInvoicePayment has something to charge and finds nothing in flight.
Chargeable(i) == invoice[i].status = "OPEN" /\ invoice[i].charge = "none"

StartCharge(w) ==
  /\ worker[w].pc = "collecting" /\ Chargeable(worker[w].inv)
  /\ invoice' = [invoice EXCEPT ![worker[w].inv].charge = "pending"]
  /\ worker' = [worker EXCEPT ![w].pc = "charging"]
  /\ UNCHANGED <<now, sub, issued, settler, crashes, rebased>>

\* The provider answered, or the caller of POST /renew did not want to collect.
Collect(w) ==
  /\ worker[w].pc = IF w \in Sweeps THEN "charging" ELSE "collecting"
  /\ Finish(w)
  /\ UNCHANGED <<now, sub, invoice, issued, settler, crashes, rebased>>

\* A mutant: the sweep logs the failed collection and goes on.
CollectFailureIgnored(w) ==
  /\ worker[w].pc \in {"collecting", "charging"}
  /\ Finish(w)
  /\ UNCHANGED <<now, sub, invoice, issued, settler, crashes, rebased>>

\* attemptInvoicePayment throws: nothing to pay, no rail, a charge in flight, or a
\* time-out that leaves the charge in flight.  The sweep closes the trial.
CollectFails(w) ==
  /\ worker[w].pc \in {"collecting", "charging"}
  /\ sub' = IF w \in Sweeps /\ worker[w].seen.status = "TRIALING" /\ sub.status = "TRIALING"
            THEN [sub EXCEPT !.status = "PAST_DUE"] ELSE sub
  /\ Finish(w)
  /\ UNCHANGED <<now, invoice, issued, settler, crashes, rebased>>

Crash(w) ==
  /\ worker[w].pc \notin {"idle", "done"} /\ crashes < MaxCrashes
  /\ Finish(w)
  /\ crashes' = crashes + 1
  /\ UNCHANGED <<now, sub, invoice, issued, settler, rebased>>

-----------------------------------------------------------------------------
(* Payments *)

\* Any other caller of attemptInvoicePayment: the customer, dunning, the portal.
Retry(i) ==
  /\ Chargeable(i)
  /\ invoice' = [invoice EXCEPT ![i].charge = "pending"]
  /\ UNCHANGED <<now, sub, issued, worker, settler, crashes, rebased>>

\* The provider takes the money; the platform learns of it when a settler does.
Collected(i) ==
  /\ invoice[i].charge = "pending"
  /\ invoice' = [invoice EXCEPT ![i] = [@ EXCEPT !.charge = "collected", !.paidAt = now]]
  /\ UNCHANGED <<now, sub, issued, worker, settler, crashes, rebased>>

\* The charge fails and failInvoiceInTransaction opens a grace period.
Declined(i) ==
  /\ invoice[i].charge = "pending"
  /\ invoice' = [invoice EXCEPT ![i].charge = "none"]
  /\ sub' = IF sub.status \in {"TRIALING", "ACTIVE", "PAST_DUE"}
            THEN [sub EXCEPT !.status = "GRACE_PERIOD"] ELSE sub
  /\ UNCHANGED <<now, issued, worker, settler, crashes, rebased>>

BeginSettle(s, i) ==
  /\ settler[s].pc = "idle"
  /\ invoice[i].charge = "collected" /\ invoice[i].status = "OPEN"
  /\ settler' = [settler EXCEPT ![s] = [pc |-> "posting", seen |-> sub.status, inv |-> i,
                                           paidAt |-> invoice[i].paidAt]]
  /\ UNCHANGED <<now, sub, invoice, issued, worker, crashes, rebased>>

\* planPaymentRecovery: only a recovery from UNPAID starts a period, at the
\* moment the provider was paid.
Recovered(seen, paidAt) ==
  IF seen = "UNPAID"
  THEN [sub EXCEPT !.status = "ACTIVE", !.start = paidAt,
                   !.end = paidAt + Interval]
  ELSE [sub EXCEPT !.status = "ACTIVE"]

Settle(s) ==
  LET seen == settler[s].seen
      recovers == seen \in RecoverableStatuses
  IN /\ settler[s].pc = "posting"
     /\ recovers => sub.status = seen
     /\ sub' = IF recovers THEN Recovered(seen, settler[s].paidAt) ELSE sub
     /\ rebased' = (rebased \/ seen = "UNPAID")
     /\ invoice' = [invoice EXCEPT ![settler[s].inv] = Bill("PAID", @.start, @.end)]
     /\ settler' = [settler EXCEPT ![s] = IdleSettler]
     /\ UNCHANGED <<now, issued, worker, crashes>>

\* The compare-and-swap fails, and the payment is left to be posted later.
SettleLost(s) ==
  /\ settler[s].pc = "posting"
  /\ settler[s].seen \in RecoverableStatuses /\ sub.status # settler[s].seen
  /\ settler' = [settler EXCEPT ![s] = IdleSettler]
  /\ UNCHANGED <<now, sub, invoice, issued, worker, crashes, rebased>>

-----------------------------------------------------------------------------
(* What merchants and customers do *)

\* The status moves under its compare-and-swap, here in one step.
SetStatus(from, to) ==
  /\ sub.status \in from
  /\ sub' = [sub EXCEPT !.status = to]
  /\ UNCHANGED <<now, invoice, issued, worker, settler, crashes, rebased>>

ExpireGracePeriod ==
  \E action \in FailureAction : SetStatus({"GRACE_PERIOD"}, StatusForFailureAction[action])

PauseSubscription == SetStatus({s \in Status : CanTransition(s, "PAUSED")}, "PAUSED")

ResumeFromPause == SetStatus({"PAUSED"}, "ACTIVE")

CancelImmediately ==
  /\ CanTransition(sub.status, "CANCELED")
  /\ sub' = [sub EXCEPT !.status = "CANCELED", !.cancel = FALSE]
  /\ UNCHANGED <<now, invoice, issued, worker, settler, crashes, rebased>>

\* cancelSubscription with atPeriodEnd; it leaves the status alone.
ScheduleCancel ==
  /\ sub.status # "CANCELED" /\ ~sub.cancel
  /\ sub' = [sub EXCEPT !.cancel = TRUE]
  /\ UNCHANGED <<now, invoice, issued, worker, settler, crashes, rebased>>

\* resumeSubscription of one that is scheduled to end, before it does.
RevokeCancel ==
  /\ sub.status # "PAUSED" /\ sub.cancel /\ now < sub.end
  /\ sub' = [sub EXCEPT !.cancel = FALSE]
  /\ UNCHANGED <<now, invoice, issued, worker, settler, crashes, rebased>>

Tick ==
  /\ now < Horizon
  /\ now' = now + 1
  /\ UNCHANGED <<sub, invoice, issued, worker, settler, crashes, rebased>>

-----------------------------------------------------------------------------

Renew(w) ==
  \/ Select(w) \/ BeginRenewal(w) \/ SkipRenewal(w)
  \/ \E collectable \in BOOLEAN, status \in {"OPEN", "PAID"} :
       OpenPeriod(w, collectable, status)
  \/ CancelAtPeriodEnd(w) \/ RenewalLost(w)
  \/ StartCharge(w) \/ Collect(w) \/ CollectFails(w)

Post(s) == (\E i \in Invoices : BeginSettle(s, i)) \/ Settle(s) \/ SettleLost(s)

Outside ==
  \/ \E i \in Invoices : Retry(i) \/ Collected(i) \/ Declined(i)
  \/ ExpireGracePeriod \/ PauseSubscription \/ ResumeFromPause \/ CancelImmediately
  \/ ScheduleCancel \/ RevokeCancel
  \/ Tick

Next ==
  \/ \E w \in Renewers : Renew(w) \/ Crash(w)
  \/ \E s \in Settlers : Post(s)
  \/ Outside

Spec == Init /\ [][Next]_vars

\* The job scheduler starts the renewals job every hour, its batch reaches this
\* subscription, and a renewal that has begun runs to its end.  Nothing is assumed
\* of payments or customers.
FairSpec == Spec /\ \A w \in Renewers : WF_vars(Renew(w))

-----------------------------------------------------------------------------
(* Properties *)

\* "Both reading the same currentPeriodEnd and both opening a period from it is
\* how the same period gets invoiced, and charged, twice": as long as no recovery
\* from UNPAID moved the period, invoices follow each other without overlap and
\* without a gap, and the last one is for the period on the subscription.
PeriodsAreBilledOnce ==
  ~rebased => /\ \A i \in 2..issued : invoice[i].start = invoice[i - 1].end
              /\ issued > 0 => /\ invoice[issued].start = sub.start
                               /\ invoice[issued].end = sub.end

\* However long a subscription waited in a sweep's batch, and whatever renewed it
\* meanwhile, the sweep neither issues an invoice for a period that has not begun
\* nor carries out a scheduled cancellation before the period is over.
SweepActsWhenDue ==
  [][\A w \in Sweeps :
       worker[w].pc = "renewing" /\ worker'[w].pc # "renewing" /\ crashes' = crashes =>
         /\ issued' # issued => invoice'[issued'].start <= now
         /\ sub'.status = "CANCELED" /\ sub.status # "CANCELED" /\ ~rebased =>
              sub.end <= now]_vars

\* "that leaves the trial holding live entitlements with its period already
\* advanced, and nothing would select it again": once the sweep has opened a
\* trial's first paid period and moved on, the subscription is still TRIALING only
\* while there is a charge whose result will decide.
InvoicedTrialAwaitsACharge ==
  /\ crashes = 0 /\ \A r \in Requests : worker[r].pc = "idle"
  /\ \A w \in Sweeps : worker[w].pc \in {"idle", "selected"}
  /\ sub.status = "TRIALING" /\ issued > 0
  => \E i \in 1..issued : invoice[i].status = "OPEN" /\ invoice[i].charge # "none"

\* An ACTIVE or TRIALING subscription whose period is over does not stay so: it is
\* renewed, or leaves these statuses.  (The last disjunct is the bound.)
SweepCatchesUp ==
  (sub.status \in {"ACTIVE", "TRIALING"} /\ sub.end <= now)
    ~> \/ sub.status \notin {"ACTIVE", "TRIALING"}
       \/ now < sub.end
       \/ issued = MaxInvoices

=============================================================================
