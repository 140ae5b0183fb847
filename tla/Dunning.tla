------------------------------ MODULE Dunning ------------------------------
(***************************************************************************)
(* One unpaid invoice of a subscription: the retry ladder its failures     *)
(* build (failInvoiceInTransaction), the retry sweep that climbs it, the   *)
(* grace period and its end, and the last email, with the pay link a       *)
(* notifications job opens for it.                                         *)
(*                                                                         *)
(* A failure is recorded by a transaction that reads the attempts and      *)
(* writes the invoice, without a lock, so it is two steps; where the       *)
(* provider's adapter throws, the attempt is marked FAILED first and that  *)
(* transaction comes later.  The races on the subscription's status and    *)
(* on the money are module Payments' subject: a payment and the end of a   *)
(* grace period are one step here, an attempt is in one transaction at a   *)
(* time, and an invoice a merchant voids is left to it.                    *)
(***************************************************************************)
EXTENDS Notices, Sequences, FiniteSets, FiniteSetsExt

CONSTANTS
  MaxRetryAttempts, RetryIntervals, GracePeriodDays,   \* BillingSettings
  FinalStatuses,    \* what the configured failure action makes of a subscription
  InitialStatuses,  \* of the subscription when its invoice is issued
  Cards,            \* a subset of BOOLEAN: whether the customer has a stored card
  Sweeps,           \* dunning jobs that may be running at the same time
  Horizon,          \* bound: the last day
  MaxAsked,         \* bound: payment attempts when a customer or a merchant asks for one
  MaxCharges        \* bound: payment attempts

ASSUME DunningAssumption ==
  /\ MaxRetryAttempts \in Nat /\ RetryIntervals \in Seq(Nat) /\ RetryIntervals # <<>>
  /\ GracePeriodDays \in Nat /\ Horizon \in Nat
  /\ MaxAsked \in Nat /\ MaxCharges \in Nat \ {0}
  /\ FinalStatuses \subseteq {"UNPAID", "CANCELED", "PAUSED"}
  /\ InitialStatuses \subseteq {"INCOMPLETE", "ACTIVE"} /\ Cards \subseteq BOOLEAN
  /\ Keys = {"dunning_exhausted"}

VARIABLES
  now,      \* in days
  sub,      \* the Subscription row
  invoice,  \* the Invoice row
  attempt,  \* the PaymentAttempt rows, in the order they were created
  made,     \* how many of them exist
  sweep,    \* dunning jobs in flight
  card      \* whether there is a card to charge without the customer

ladderVars == <<now, sub, invoice, attempt, made, sweep, card>>
vars == <<now, sub, invoice, attempt, made, sweep, card, mail, mailer, inbox, unsure, deaths>>

Attempts == 1..MaxCharges
Never == Horizon + 100     \* nextRetryAt = null

\* charging: PROCESSING, waiting for the provider; unknown: PROCESSING after a
\* time-out; checkout: PENDING, a page the customer may pay on.
\* declining and canceling: not yet FAILED or CANCELED, in a transaction that has
\* read; handling and failing: FAILED, with failInvoiceInTransaction to come, or
\* having read.
AttemptState == {"none", "charging", "unknown", "checkout", "declining", "canceling",
                 "handling", "failing", "failed", "canceled", "paid"}

\* at: the day of creation; hopeless: a failure that is not worth retrying;
\* was: what the row says until its transaction commits, "call" when the provider's
\* client itself brought the answer; count, retryAt and lapses: what the
\* transaction read and decided.
AttemptRow == [state : AttemptState, at : Nat, hopeless : BOOLEAN,
               was : {"none", "call", "charging", "unknown", "checkout"},
               count : 0..MaxCharges, retryAt : Nat, lapses : BOOLEAN]

NoAttempt == [state |-> "none", at |-> 0, hopeless |-> FALSE, was |-> "none", count |-> 0,
              retryAt |-> 0, lapses |-> FALSE]

TypeOK ==
  /\ NoticesTypeOK
  /\ now \in Nat
  /\ sub \in [status : {"INCOMPLETE", "ACTIVE", "GRACE_PERIOD", "CANCELED", "EXPIRED"}
                         \cup FinalStatuses,
              graceEnd : Nat]
  /\ invoice \in [status : {"OPEN", "PAID", "VOID"}, dunningAttempts : 0..MaxCharges,
                  nextRetryAt : Nat]
  /\ attempt \in [Attempts -> AttemptRow]
  /\ made \in 0..MaxCharges
  /\ sweep \in [Sweeps -> [pc : {"idle", "selected"}, dunningAttempts : 0..MaxCharges]]
  /\ card \in BOOLEAN

Init ==
  /\ NoticesInit
  /\ now = 0
  /\ \E s \in InitialStatuses : sub = [status |-> s, graceEnd |-> 0]
  /\ invoice = [status |-> "OPEN", dunningAttempts |-> 0, nextRetryAt |-> Never]
  /\ attempt = [a \in Attempts |-> NoAttempt]
  /\ made = 0
  /\ sweep = [w \in Sweeps |-> [pc |-> "idle", dunningAttempts |-> 0]]
  /\ card \in Cards

-----------------------------------------------------------------------------
(* Starting a payment *)

\* Created less than five minutes ago and still PROCESSING.  (One that has timed out
\* blocks for as long, which is no time here.)
InFlight(a) == attempt[a].state = "charging" \/ attempt[a].was \in {"call", "charging"}

\* assertPayable, and under the advisory lock no attempt in flight.
Payable ==
  /\ invoice.status = "OPEN" /\ made < MaxCharges
  /\ \A a \in Attempts : ~InFlight(a)

StartAttempt ==
  /\ attempt' = [attempt EXCEPT ![made + 1] = [NoAttempt EXCEPT !.state = "charging", !.at = now]]
  /\ made' = made + 1

\* The first charge, or the merchant's or the customer's own retry.
Charge ==
  /\ made < MaxAsked /\ Payable /\ StartAttempt
  /\ UNCHANGED <<now, sub, invoice, sweep, card>> /\ UNCHANGED noticeVars

\* runDunningRetries puts the invoice into its batch.
Select(w) ==
  /\ sweep[w].pc = "idle"
  /\ invoice.status = "OPEN" /\ invoice.nextRetryAt <= now
  /\ sweep' = [sweep EXCEPT ![w] = [pc |-> "selected",
                                    dunningAttempts |-> invoice.dunningAttempts]]
  /\ UNCHANGED <<now, sub, invoice, attempt, made, card>> /\ UNCHANGED noticeVars

SweepDone(w) == sweep' = [sweep EXCEPT ![w] = [pc |-> "idle", dunningAttempts |-> 0]]

\* A mutant: an invoice past the limit is passed over.
PassOver(w) ==
  /\ sweep[w].pc = "selected" /\ sweep[w].dunningAttempts >= MaxRetryAttempts
  /\ SweepDone(w)
  /\ UNCHANGED <<now, sub, invoice, attempt, made, card>> /\ UNCHANGED noticeVars

\* "must not be retried forever": nextRetryAt is cleared, by id.
GiveUp(w) ==
  /\ sweep[w].pc = "selected" /\ sweep[w].dunningAttempts >= MaxRetryAttempts
  /\ invoice' = [invoice EXCEPT !.nextRetryAt = Never]
  /\ SweepDone(w)
  /\ UNCHANGED <<now, sub, attempt, made, card>> /\ UNCHANGED noticeVars

Retry(w) ==
  /\ sweep[w].pc = "selected" /\ sweep[w].dunningAttempts < MaxRetryAttempts
  /\ Payable /\ StartAttempt
  /\ SweepDone(w)
  /\ UNCHANGED <<now, sub, invoice, card>> /\ UNCHANGED noticeVars

\* attemptInvoicePayment throws, and the sweep goes on.
RetryRefused(w) ==
  /\ sweep[w].pc = "selected" /\ sweep[w].dunningAttempts < MaxRetryAttempts
  /\ ~Payable
  /\ SweepDone(w)
  /\ UNCHANGED <<now, sub, invoice, attempt, made, card>> /\ UNCHANGED noticeVars

-----------------------------------------------------------------------------
(* What comes of it *)

Turns(a, state) == attempt' = [attempt EXCEPT ![a].state = state]

\* Without a stored card a hosted checkout is opened.
CheckoutOpened(a) ==
  /\ attempt[a].state = "charging" /\ ~card
  /\ Turns(a, "checkout")
  /\ UNCHANGED <<now, sub, invoice, made, sweep, card>> /\ UNCHANGED noticeVars

TimedOut(a) ==
  /\ attempt[a].state = "charging"
  /\ Turns(a, "unknown")
  /\ UNCHANGED <<now, sub, invoice, made, sweep, card>> /\ UNCHANGED noticeVars

Unresolved(a) == attempt[a].state \in {"charging", "unknown", "checkout"}

\* applyPaymentResult with SUCCEEDED.  A hosted checkout may store its card.
Paid(a) ==
  /\ Unresolved(a)
  /\ attempt' = [attempt EXCEPT ![a] = [NoAttempt EXCEPT !.state = "paid"]]
  /\ invoice' = IF invoice.status = "OPEN"
                THEN [invoice EXCEPT !.status = "PAID", !.nextRetryAt = Never] ELSE invoice
  /\ sub' = IF invoice.status = "OPEN" /\ sub.status \in {"INCOMPLETE", "GRACE_PERIOD", "UNPAID"}
            THEN [status |-> "ACTIVE", graceEnd |-> 0] ELSE sub
  /\ UNCHANGED <<now, made, sweep, card>> /\ UNCHANGED noticeVars

\* The adapter throws, on a charge or on opening a checkout: the attempt is
\* FAILED, and handlePaymentFailure is called next.
Throws(a, hopeless) ==
  /\ attempt[a].state = "charging"
  /\ attempt' = [attempt EXCEPT ![a] = [@ EXCEPT !.state = "handling", !.hopeless = hopeless]]
  /\ UNCHANGED <<now, sub, invoice, made, sweep, card>> /\ UNCHANGED noticeVars

-----------------------------------------------------------------------------
(* failInvoiceInTransaction *)

\* nextRetryAt.
NextRetryAt(first, failed) ==
  IF failed >= MaxRetryAttempts THEN Never
  ELSE first + RetryIntervals[IF failed < Len(RetryIntervals) THEN failed + 1
                              ELSE Len(RetryIntervals)]

Failed == {a \in Attempts : attempt[a].state \in {"handling", "failing", "failed"}}

\* A mutant: one more than the FAILED attempts there are already.
CountOneMore(failed) == Cardinality(failed) + 1

\* A mutant: the count is of every attempt, as attemptNumber's is.
CountAttempts(failed) == made

\* failedAttempts.
CountFailed(failed) == Cardinality(failed)

\* What the transaction reads, failed being the FAILED attempts it sees, and what it
\* will write; the reason it goes by is that of the one created last.
Decision(a, failed, hopeless) ==
  LET giveUp == failed # {} /\ IF Max(failed) = a THEN hopeless
                                ELSE attempt[Max(failed)].hopeless
      first == IF failed = {} THEN now ELSE Min({attempt[b].at : b \in failed})
      count == CountFailed(failed)
  IN [attempt[a] EXCEPT
        !.hopeless = hopeless,
        !.count = count,
        !.retryAt = IF giveUp THEN Never
                    ELSE NextRetryAt(first, IF count = 0 THEN 0 ELSE count - 1),
        !.lapses = sub.status = "ACTIVE"]

\* applyPaymentResult with FAILED: the attempt's own row is part of the transaction.
Declined(a, was, hopeless) ==
  /\ Unresolved(a)
  /\ attempt' = [attempt EXCEPT ![a] = [Decision(a, Failed \cup {a}, hopeless) EXCEPT
                                         !.state = "declining", !.was = was]]
  /\ UNCHANGED <<now, sub, invoice, made, sweep, card>> /\ UNCHANGED noticeVars

\* With CANCELED, which is not counted.
Canceled(a, was) ==
  /\ Unresolved(a)
  /\ attempt' = [attempt EXCEPT ![a] = [Decision(a, Failed, FALSE) EXCEPT
                                         !.state = "canceling", !.was = was]]
  /\ UNCHANGED <<now, sub, invoice, made, sweep, card>> /\ UNCHANGED noticeVars

\* handlePaymentFailure's transaction reads.
HandleFailure(a) ==
  /\ attempt[a].state = "handling"
  /\ attempt' = [attempt EXCEPT ![a] = [Decision(a, Failed, @.hopeless) EXCEPT
                                         !.state = "failing"]]
  /\ UNCHANGED <<now, sub, invoice, made, sweep, card>> /\ UNCHANGED noticeVars

InFailure(a) == attempt[a].state \in {"declining", "canceling", "failing"}

\* What the transaction had read is of no more use; a reason is kept with the failure
\* alone.  (That of a rollback is no card's.)
Becoming(a, state) ==
  [NoAttempt EXCEPT !.state = state, !.at = attempt[a].at,
                    !.hopeless = (state = "failed" /\ attempt[a].hopeless)]

\* The invoice is written before the status is looked at.  An ACTIVE subscription
\* lapses into a grace period; any other one is left as it is.
CommitFailure(a) ==
  /\ InFailure(a)
  /\ attempt[a].lapses => sub.status = "ACTIVE"
  /\ invoice' = [invoice EXCEPT !.dunningAttempts = attempt[a].count,
                                !.nextRetryAt = attempt[a].retryAt]
  /\ sub' = IF attempt[a].lapses
            THEN [status |-> "GRACE_PERIOD", graceEnd |-> now + GracePeriodDays] ELSE sub
  /\ attempt' = [attempt EXCEPT ![a] =
       IF @.state = "canceling" THEN [NoAttempt EXCEPT !.state = "canceled"]
       ELSE Becoming(a, "failed")]
  /\ UNCHANGED <<now, made, sweep, card>> /\ UNCHANGED noticeVars

\* The transition's compare-and-swap fails and the transaction is rolled back.  In
\* the provider's client the catch marks the attempt FAILED and calls
\* handlePaymentFailure; whoever else brought the answer will bring it again.
FailureLost(a) ==
  /\ InFailure(a)
  /\ attempt[a].lapses /\ sub.status # "ACTIVE"
  /\ attempt' = [attempt EXCEPT ![a] =
       Becoming(a, IF @.state = "failing" THEN "failed"
                   ELSE IF @.was = "call" THEN "handling" ELSE @.was)]
  /\ UNCHANGED <<now, sub, invoice, made, sweep, card>> /\ UNCHANGED noticeVars

\* The client's process dies with the failure not, or only in part, recorded.  (Of a
\* webhook's or a reconciliation's death no trace is left.)
FailureAbandoned(a) ==
  /\ attempt[a].state \in {"handling", "failing"} \/ (InFailure(a) /\ attempt[a].was = "call")
  /\ deaths < MaxDeaths
  /\ attempt' = [attempt EXCEPT ![a] =
       Becoming(a, IF @.state \in {"handling", "failing"} THEN "failed" ELSE "unknown")]
  /\ deaths' = deaths + 1
  /\ UNCHANGED <<now, sub, invoice, made, sweep, card, mail, mailer, inbox, unsure>>

-----------------------------------------------------------------------------
(* Grace periods, and time *)

\* A mutant: only for as long as the invoice is open.
ExpireWhileOwing ==
  /\ sub.status = "GRACE_PERIOD" /\ sub.graceEnd <= now /\ invoice.status = "OPEN"
  /\ \E s \in FinalStatuses : sub' = [status |-> s, graceEnd |-> 0]
  /\ UNCHANGED <<now, invoice, attempt, made, sweep, card>> /\ UNCHANGED noticeVars

\* runGraceExpiry, with the end and the action the subscription was given.
ExpireGracePeriod ==
  /\ sub.status = "GRACE_PERIOD" /\ sub.graceEnd <= now
  /\ \E s \in FinalStatuses : sub' = [status |-> s, graceEnd |-> 0]
  /\ UNCHANGED <<now, invoice, attempt, made, sweep, card>> /\ UNCHANGED noticeVars

\* runIncompleteExpiry.
ExpireIncomplete ==
  /\ sub.status = "INCOMPLETE" /\ invoice.status = "OPEN"
  /\ sub' = [sub EXCEPT !.status = "EXPIRED"]
  /\ invoice' = [invoice EXCEPT !.status = "VOID", !.nextRetryAt = Never]
  /\ UNCHANGED <<now, attempt, made, sweep, card>> /\ UNCHANGED noticeVars

\* cancelSubscription, at once: the invoice stays open, and so does its ladder.
Cancel ==
  /\ sub.status \notin {"CANCELED", "EXPIRED"}
  /\ sub' = [status |-> "CANCELED", graceEnd |-> 0]
  /\ UNCHANGED <<now, invoice, attempt, made, sweep, card>> /\ UNCHANGED noticeVars

Tick ==
  /\ now < Horizon
  /\ now' = now + 1
  /\ UNCHANGED <<sub, invoice, attempt, made, sweep, card>> /\ UNCHANGED noticeVars

-----------------------------------------------------------------------------
(* Telling the customer that there will be no more retries *)

Exhausted ==
  invoice.status = "OPEN" /\ invoice.dunningAttempts >= 1 /\ invoice.nextRetryAt = Never

\* The job's list has the invoice on it, and alreadySettled says to go on.
FindExhausted(m) ==
  /\ Exhausted /\ Prepare(m, "dunning_exhausted") /\ UNCHANGED ladderVars

CheckoutOpen == \E a \in Attempts : attempt[a].state = "checkout"

\* payUrlFor: one more attempt, with forceCheckout, unless a page is open.
OpenPayLink(m) ==
  /\ At(m, "preparing") /\ ~CheckoutOpen /\ Payable
  /\ \E state \in {"checkout", "unknown", "handling"} :
       attempt' = [attempt EXCEPT ![made + 1] = [NoAttempt EXCEPT !.state = state,
                                                                  !.at = now]]
  /\ made' = made + 1
  /\ Becomes(m, "rendered")
  /\ UNCHANGED <<now, sub, invoice, sweep, card, mail, inbox, unsure, deaths>>

\* The page that is open, or none: "No pay link is a worse email, not a failed job".
Render(m) ==
  /\ At(m, "preparing") /\ (CheckoutOpen \/ ~Payable)
  /\ Becomes(m, "rendered")
  /\ UNCHANGED ladderVars /\ UNCHANGED <<mail, inbox, unsure, deaths>>

Send(m) == SendOnce(m) /\ UNCHANGED ladderVars

-----------------------------------------------------------------------------

Climb(w) == Select(w) \/ GiveUp(w) \/ Retry(w) \/ RetryRefused(w)

Answer(a) ==
  /\ attempt[a].state = "charging"
  /\ \/ CheckoutOpened(a) \/ TimedOut(a) \/ Paid(a)
     \/ Canceled(a, "call")
     \/ \E hopeless \in BOOLEAN : Throws(a, hopeless) \/ Declined(a, "call", hopeless)

\* A webhook or reconciliation.
Resolve(a) ==
  \/ Paid(a) \/ Canceled(a, attempt[a].state)
  \/ \E hopeless \in BOOLEAN : Declined(a, attempt[a].state, hopeless)

RecordFailure(a) == HandleFailure(a) \/ CommitFailure(a) \/ FailureLost(a)

Notify(m) == FindExhausted(m) \/ OpenPayLink(m) \/ Render(m) \/ Send(m)

Dies(m) == Die(m) /\ UNCHANGED ladderVars

GrowsStale == (\E k \in Keys : ClaimGrowsStale(k)) /\ UNCHANGED ladderVars

Next ==
  \/ Charge \/ \E w \in Sweeps : Climb(w)
  \/ \E a \in Attempts : Answer(a) \/ Resolve(a) \/ RecordFailure(a) \/ FailureAbandoned(a)
  \/ ExpireGracePeriod \/ ExpireIncomplete \/ Cancel \/ Tick
  \/ \E m \in Mailers : Notify(m) \/ Dies(m)
  \/ GrowsStale

Spec == Init /\ [][Next]_vars

\* The scheduler starts each job over and over, a job runs to its end, a provider's
\* client times out, and time passes.  Nothing is assumed of customers, of what
\* the provider answers, or of a charge whose outcome is unknown.
FairSpec ==
  /\ Spec
  /\ \A w \in Sweeps : WF_vars(Climb(w))
  /\ WF_vars(\E a \in Attempts : Answer(a)) /\ WF_vars(\E a \in Attempts : RecordFailure(a))
  /\ \A m \in Mailers : WF_vars(Notify(m))
  /\ WF_vars(ExpireGracePeriod) /\ WF_vars(Tick) /\ WF_vars(GrowsStale)

-----------------------------------------------------------------------------
(* Properties *)

\* dunningAttempts, which the sweep's limit and the emails go by, never counts a
\* failure that did not happen: not a charge still in flight, not an open checkout.
CountsOnlyFailures == invoice.dunningAttempts <= Cardinality(Failed)

\* "must not be retried forever": past the limit, no date for a retry is set.
NothingScheduledPastTheLimit ==
  invoice.dunningAttempts > MaxRetryAttempts => invoice.nextRetryAt = Never

\* A charge nobody has heard the end of, and one that was called off: no failure
\* that dunningAttempts counts.
Uncounted == {a \in Attempts : attempt[a].state \in {"unknown", "checkout", "canceled"}}

\* The ladder comes to an end: as long as every charge comes to a failure or a
\* payment, the invoice stops being open or has no date for another retry, whatever
\* failures are recorded at once, or by a process that dies.
LadderEnds ==
  (invoice.status = "OPEN" /\ invoice.nextRetryAt <= Horizon)
    ~> invoice.status # "OPEN" \/ invoice.nextRetryAt > Horizon \/ Uncounted # {}

\* A grace period is closed.
GraceEnds ==
  (sub.status = "GRACE_PERIOD" /\ sub.graceEnd <= Horizon) ~> sub.status # "GRACE_PERIOD"

\* "the exhausted-dunning email fires on the very next pass": once there are no more
\* retries, the customer is told, unless the organization sends no email, the
\* provider has refused the message MAX_EMAIL_ATTEMPTS times, or there is no more
\* need.  (The last disjunct is the bound.)
CustomerIsTold ==
  Exhausted ~> \/ ~Exhausted
               \/ mail["dunning_exhausted"].status \in {"SENT", "SUPPRESSED"}
               \/ /\ mail["dunning_exhausted"].status = "FAILED"
                  /\ mail["dunning_exhausted"].attempts >= MaxEmailAttempts
               \/ mail["dunning_exhausted"].attempts = MaxClaims

=============================================================================
