--------------------------- MODULE PaymentsProofs ---------------------------
(***************************************************************************)
(* What Payments keeps for every number of callers, settlers, movers,      *)
(* rails, invoices and attempts.                                           *)
(***************************************************************************)
EXTENDS Payments, TLAPS

(* The inductive invariant, in parts.                                      *)

Busy == {"charging", "answered", "applying", "posting", "catching"}

\* An invoice somebody has tried to collect was open then: if it is paid now, it
\* is so because money was booked.
Billed(row) == row.status # "NONE" /\ (row.status = "PAID" => row.amountPaid > 0)

\* Where a worker can be, and what it then holds.
WorkerOK ==
  \A p \in Workers :
    /\ worker[p].pc \in {"checked", "charging", "catching", "failing"} => p \in Callers
    /\ p \in Callers /\ worker[p].pc \notin {"idle", "failing"} => worker[p].rails > 0
    /\ p \in Callers /\ worker[p].pc \notin {"idle", "failing"} =>
         worker[p].inv \in Invoices /\ Billed(invoice[worker[p].inv])
    /\ worker[p].pc \in Busy =>
         worker[p].att \in Attempts /\ attempt[worker[p].att].status # "NONE"
    /\ worker[p].pc \in {"checked", "charging"} => worker[p].answer = "none"
    /\ worker[p].pc = "posting" => worker[p].answer = "SUCCEEDED"

\* The attempt row is written before the provider is called.
AttemptOK ==
  \A a \in Attempts :
    IF attempt[a].status = "NONE"
    THEN charge[a] = "none"
    ELSE attempt[a].inv \in Invoices /\ Billed(invoice[attempt[a].inv])

Shape == TypeOK /\ AttemptOK /\ WorkerOK

\* A decision in flight was legal for the status it read, and a grace period
\* always carries the policy that will close it.
MoverOK ==
  /\ sub.status = "GRACE_PERIOD" => sub.gracePolicy \in FailureActions
  /\ \A m \in Movers :
       mover[m].pc = "moving" =>
         /\ mover[m].seen \in Status /\ mover[m].target \in Transitions[mover[m].seen]
         /\ mover[m].target \in {"CANCELED", "PAUSED", "UNPAID", "ACTIVE", "EXPIRED"}
         /\ mover[m].target = "ACTIVE" => mover[m].seen = "PAUSED"
         /\ mover[m].target = "EXPIRED" => mover[m].seen = "INCOMPLETE"
         /\ mover[m].target = "UNPAID" => mover[m].seen = "GRACE_PERIOD"
  /\ \A m \in Movers :
       mover[m].pc = "renewing" =>
         mover[m].seen \in {"TRIALING", "ACTIVE", "PAST_DUE", "GRACE_PERIOD", "UNPAID"}

LEMMA IdleTyped == IdleWorker \in WorkerState /\ IdleMover \in MoverState
  BY DEF IdleWorker, WorkerState, IdleMover, MoverState

LEMMA InitShape == Init => Shape
<1> SUFFICES ASSUME Init PROVE Shape
  OBVIOUS
<1>1. TypeOK
  <2>1. sub \in SubscriptionRow
    BY DEF Init, SubscriptionRow, Status
  <2>2. invoice \in [Invoices -> InvoiceRow]
    <3>1. \A s \in {"NONE", "OPEN", "PAID"} : NewInvoice(s) \in InvoiceRow
      BY DEF NewInvoice, InvoiceRow
    <3> QED
      BY <3>1 DEF Init
  <2>3. attempt \in [Attempts -> AttemptRow] /\ charge \in [Attempts -> ChargeState]
    BY DEF Init, AttemptRow, ChargeState
  <2>4. QED
    BY <2>1, <2>2, <2>3, IdleTyped DEF Init, TypeOK
<1>2. AttemptOK
  BY DEF Init, AttemptOK
<1>3. WorkerOK
  BY DEF Init, WorkerOK, IdleWorker, Busy
<1> QED
  BY <1>1, <1>2, <1>3 DEF Shape

\* A caller's steps before and after it applies a result.
LEMMA CallerShape ==
  ASSUME Shape, NEW c \in Callers, CallerStep(c) PROVE Shape'
<1> USE DEF Shape
<1>0. c \in Workers /\ worker[c] \in WorkerState
  BY DEF Workers, TypeOK
<1>1. ASSUME NEW i \in Invoices, NEW force \in BOOLEAN, LoadInvoice(c, i, force) PROVE Shape'
  <2>1. TypeOK'
    BY <1>0, <1>1, IdleTyped, PaymentsAssumption DEF LoadInvoice, TypeOK, WorkerState
  <2>2. WorkerOK'
    BY <1>0, <1>1, PaymentsAssumption DEF LoadInvoice, WorkerOK, Billed, AssertPayable, IdleWorker, Busy, TypeOK
  <2> QED
    BY <1>1, <2>1, <2>2 DEF LoadInvoice, AttemptOK
<1>2. CASE CreateAttempt(c)
  <2>1. TypeOK'
    <3>1. PICK a \in NextAttempt :
            /\ attempt' = [attempt EXCEPT ![a] = [inv |-> worker[c].inv,
                                                  status |-> "PROCESSING", fresh |-> TRUE]]
            /\ worker' = [worker EXCEPT ![c].pc = "charging", ![c].att = a]
      BY <1>2 DEF CreateAttempt
    <3>2. a \in Nat /\ worker[c].inv \in Invoices
      BY <1>0, <1>2, <3>1 DEF CreateAttempt, NextAttempt, Attempts, WorkerOK
    <3>3. attempt' \in [Attempts -> AttemptRow]
      BY <3>1, <3>2 DEF TypeOK, AttemptRow, Unsettled
    <3>4. worker' \in [Workers -> WorkerState]
      BY <1>0, <3>1, <3>2 DEF TypeOK, WorkerState
    <3> QED
      BY <1>2, <3>3, <3>4 DEF CreateAttempt, TypeOK
  <2>2. WorkerOK'
    BY <1>0, <1>2 DEF CreateAttempt, NextAttempt, WorkerOK, Busy, TypeOK
  <2>3. AttemptOK'
    BY <1>0, <1>2 DEF CreateAttempt, NextAttempt, WorkerOK, AttemptOK, TypeOK
  <2> QED
    BY <2>1, <2>2, <2>3
<1>3. CASE RefuseAttempt(c) \/ ProviderTimesOut(c)
  BY <1>0, <1>3, IdleTyped DEF RefuseAttempt, ProviderTimesOut, TypeOK, AttemptOK, WorkerOK, IdleWorker, Busy
<1>4. CASE ProviderReceives(c)
  BY <1>0, <1>4 DEF ProviderReceives, TypeOK, AttemptOK, WorkerOK, Busy, ChargeState
<1>5. CASE ProviderAnswers(c)
  <2>1. Report[charge[worker[c].att]] \in Answer
    BY <1>0, <1>5 DEF ProviderAnswers, TypeOK, WorkerOK, Busy, Report, ChargeState, Answer
  <2>2. TypeOK'
    BY <1>0, <1>5, <2>1 DEF ProviderAnswers, TypeOK, WorkerState
  <2>3. WorkerOK' /\ AttemptOK'
    BY <1>0, <1>5 DEF ProviderAnswers, TypeOK, AttemptOK, WorkerOK, Busy
  <2> QED
    BY <2>2, <2>3
<1>6. CASE ProviderRefuses(c)
  BY <1>0, <1>6 DEF ProviderRefuses, TypeOK, AttemptOK, WorkerOK, Busy, WorkerState
<1>7. CASE CatchError(c)
  <2>1. worker[c].rails \in Nat /\ worker[c].rails > 0 /\ worker[c].inv \in Invoices \cup {NoInvoice}
    BY <1>0, <1>7 DEF CatchError, WorkerOK, WorkerState
  <2>2. TypeOK'
    <3>1. attempt' \in [Attempts -> AttemptRow]
      BY <1>7 DEF CatchError, Settle, TypeOK, AttemptRow, Terminal
    <3>2. worker[c].rails - 1 \in Nat
      BY <2>1
    <3>3. [IdleWorker EXCEPT !.pc = IF worker[c].rails > 1 THEN "checked" ELSE "failing",
             !.inv = worker[c].inv, !.rails = worker[c].rails - 1] \in WorkerState
      BY <2>1, <3>2 DEF IdleWorker, WorkerState
    <3>4. worker' \in [Workers -> WorkerState]
      BY <1>7, <3>3 DEF CatchError, TypeOK
    <3> QED
      BY <1>7, <3>1, <3>4 DEF CatchError, TypeOK
  <2>3. AttemptOK'
    BY <1>0, <1>7 DEF CatchError, Settle, AttemptOK, WorkerOK, TypeOK, Busy
  <2>4. WorkerOK'
    <3>1. \A a \in Attempts : attempt[a].status # "NONE" => attempt'[a].status # "NONE"
      BY <1>7 DEF CatchError, Settle, TypeOK, AttemptRow
    <3>2. /\ worker'[c].pc = IF worker[c].rails > 1 THEN "checked" ELSE "failing"
          /\ worker'[c].inv = worker[c].inv
          /\ worker'[c].rails = worker[c].rails - 1
          /\ worker'[c].answer = "none"
          /\ \A p \in Workers \ {c} : worker'[p] = worker[p]
      BY <1>0, <1>7 DEF CatchError, IdleWorker, TypeOK
    <3>3. worker[c].inv \in Invoices /\ Billed(invoice[worker[c].inv])
      BY <1>0, <1>7 DEF CatchError, WorkerOK
    <3> QED
      BY <1>0, <1>7, <2>1, <3>1, <3>2, <3>3 DEF CatchError, WorkerOK, Busy
  <2> QED
    BY <2>2, <2>3, <2>4
<1>8. CASE HandlePaymentFailure(c)
  <2>1. Lapsed \in SubscriptionRow
    BY DEF Lapsed, TypeOK, SubscriptionRow, Status
  <2>2. QED
    BY <1>0, <1>8, <2>1, IdleTyped DEF HandlePaymentFailure, TypeOK, AttemptOK, WorkerOK, IdleWorker, Busy
<1> QED
  BY <1>1, <1>2, <1>3, <1>4, <1>5, <1>6, <1>7, <1>8 DEF CallerStep

LEMMA SettlerShape ==
  ASSUME Shape, NEW s \in Settlers, SettlerStep(s) PROVE Shape'
<1> USE DEF Shape
<1>0. s \in Workers /\ worker[s] \in WorkerState /\ s \notin Callers
  BY PaymentsAssumption DEF Workers, TypeOK
<1>1. PICK a \in Attempts : VerifyPayment(s, a)
  BY DEF SettlerStep, WebhookArrives, SyncPaymentAttempt, Reconcile
<1>2. Report[charge[a]] \in Answer /\ a \in Nat
  BY <1>1 DEF VerifyPayment, TypeOK, Report, ChargeState, Answer, Attempts
<1>3. TypeOK'
  BY <1>0, <1>1, <1>2 DEF VerifyPayment, TypeOK, WorkerState, IdleWorker
<1>4. attempt[a].status # "NONE"
  BY <1>1 DEF VerifyPayment, AttemptOK
<1>5. WorkerOK'
  BY <1>0, <1>1, <1>4 DEF VerifyPayment, TypeOK, WorkerOK, IdleWorker, Busy
<1> QED
  BY <1>1, <1>3, <1>5 DEF VerifyPayment, AttemptOK

LEMMA ApplyShape ==
  ASSUME Shape, NEW p \in Workers, ApplyStep(p) \/ Crash(p) PROVE Shape'
<1> USE DEF Shape
<1>0. worker[p] \in WorkerState
  BY DEF TypeOK
<1>a. Thrown(p) \in WorkerState
  BY <1>0, IdleTyped DEF Thrown, WorkerState
<1>b. Lapsed \in SubscriptionRow /\ Recovered(p) \in SubscriptionRow
  BY DEF Lapsed, Recovered, TypeOK, SubscriptionRow, Status
<1>1. CASE Crash(p) \/ RollBackPayment(p) \/ FailureLost(p)
  <2>1. /\ \/ worker' = [worker EXCEPT ![p] = IdleWorker]
           \/ /\ worker' = [worker EXCEPT ![p] = Thrown(p)]
              /\ worker[p].pc \in {"posting", "applying"}
        /\ UNCHANGED <<sub, tokenized, failureAction, invoice, attempt, charge, mover>>
    BY <1>1 DEF Crash, RollBackPayment, FailureLost, Applying
  <2>2. TypeOK' /\ AttemptOK'
    BY <2>1, <1>a, IdleTyped DEF TypeOK, AttemptOK
  <2>3. WorkerOK'
    BY <1>0, <2>1 DEF Thrown, TypeOK, WorkerOK, IdleWorker, Busy, WorkerState
  <2> QED
    BY <2>2, <2>3
<1>2. CASE BeginApply(p)
  <2>1. TypeOK'
    <3>1. [worker[p] EXCEPT !.pc = "applying", !.seen = sub.status] \in WorkerState
      BY <1>0 DEF WorkerState, TypeOK, SubscriptionRow
    <3>2. \E state \in WorkerState : worker' = [worker EXCEPT ![p] = state]
      BY <1>2, <1>a, <3>1, IdleTyped DEF BeginApply
    <3>3. worker' \in [Workers -> WorkerState]
      BY <3>2 DEF TypeOK
    <3> QED
      BY <1>2, <3>3 DEF BeginApply, TypeOK
  <2>2. WorkerOK' /\ AttemptOK'
    BY <1>0, <1>2 DEF BeginApply, TypeOK, AttemptOK, WorkerOK, Thrown, IdleWorker, Busy
  <2> QED
    BY <2>1, <2>2
<1>3. CASE ApplyPending(p)
  BY <1>0, <1>3, IdleTyped
  DEF ApplyPending, Applying, Settle, TypeOK, AttemptRow, Unsettled, AttemptOK, WorkerOK, IdleWorker, Busy
<1>4. CASE ApplyFailure(p)
  BY <1>0, <1>4, <1>b, IdleTyped
  DEF ApplyFailure, Applying, Settle, TypeOK, AttemptRow, Terminal, AttemptOK, WorkerOK, IdleWorker, Busy
<1>5. CASE ReadInvoice(p)
  <2>1. worker[p].att \in Attempts /\ attempt[worker[p].att].inv \in Invoices
    BY <1>5 DEF ReadInvoice, Applying, WorkerOK, AttemptOK, Busy
  <2>2. invoice[attempt[worker[p].att].inv].amountPaid \in Nat
    BY <2>1 DEF TypeOK, InvoiceRow
  <2>3. TypeOK'
    BY <1>0, <1>5, <1>a, <2>2 DEF ReadInvoice, TypeOK, WorkerState
  <2>4. AttemptOK'
    BY <1>5 DEF ReadInvoice, AttemptOK
  <2>5. /\ UNCHANGED <<invoice, attempt>>
        /\ worker[p].pc = "applying" /\ worker[p].answer = "SUCCEEDED"
        /\ \A q \in Workers \ {p} : worker'[q] = worker[q]
        /\ \/ worker'[p] = IdleWorker
           \/ /\ worker'[p].pc = "posting" \/ (worker'[p].pc = "catching" /\ p \in Callers)
              /\ worker'[p].inv = worker[p].inv /\ worker'[p].att = worker[p].att
              /\ worker'[p].rails = worker[p].rails /\ worker'[p].answer = worker[p].answer
    BY <1>0, <1>5 DEF ReadInvoice, Applying, TypeOK, Thrown, WorkerState
  <2>6. WorkerOK'
    BY <2>5 DEF WorkerOK, IdleWorker, Busy
  <2> QED
    BY <2>3, <2>4, <2>6
<1>6. CASE CommitPayment(p)
  <2>1. worker[p].paid + 1 \in Nat
    BY <1>0 DEF WorkerState
  <2>2. invoice' \in [Invoices -> InvoiceRow] /\ \A i \in Invoices : Billed(invoice[i]) => Billed(invoice'[i])
    <3>1. /\ attempt[worker[p].att].inv \in Invoices
          /\ invoice' = [invoice EXCEPT ![attempt[worker[p].att].inv].status = "PAID",
                                        ![attempt[worker[p].att].inv].amountPaid = worker[p].paid + 1]
      BY <1>6 DEF CommitPayment, WorkerOK, AttemptOK, Busy
    <3>2. worker[p].paid + 1 > 0
      BY <1>0 DEF WorkerState
    <3> QED
      BY <2>1, <3>1, <3>2 DEF TypeOK, InvoiceRow, Billed
  <2>3. attempt' \in [Attempts -> AttemptRow] /\ tokenized' \in BOOLEAN
    BY <1>6 DEF CommitPayment, Settle, TypeOK, AttemptRow, Terminal
  <2>4. TypeOK'
    BY <1>6, <1>b, <2>2, <2>3, IdleTyped DEF CommitPayment, TypeOK
  <2>5. \A a \in Attempts : /\ attempt'[a].inv = attempt[a].inv
                            /\ attempt'[a].status = "NONE" => attempt[a].status = "NONE"
                            /\ attempt[a].status = "NONE" => attempt'[a].status = "NONE"
    BY <1>6 DEF CommitPayment, Settle, TypeOK, AttemptRow, WorkerOK, Busy
  <2>6. AttemptOK'
    BY <1>6, <2>2, <2>5 DEF CommitPayment, AttemptOK
  <2>7. WorkerOK'
    BY <1>0, <1>6, <2>2, <2>5 DEF CommitPayment, TypeOK, WorkerOK, IdleWorker, Busy
  <2> QED
    BY <2>4, <2>6, <2>7
<1> QED
  BY <1>1, <1>2, <1>3, <1>4, <1>5, <1>6 DEF ApplyStep

\* What a renewal may do: at its end an invoice appears, or the subscription
\* lapses from a trial or ends, and it never touches a payment.
LEMMA RenewalEffect ==
  ASSUME TypeOK, NEW m \in Movers, RenewalStep(m)
  PROVE  /\ UNCHANGED <<tokenized, failureAction, attempt, charge, worker>>
         /\ invoice' \in [Invoices -> InvoiceRow]
         /\ \A i \in Invoices : /\ invoice[i].status # "NONE" => invoice'[i] = invoice[i]
                                /\ invoice'[i].amountPaid = invoice[i].amountPaid
         /\ sub' \in SubscriptionRow
         /\ \/ sub' = sub
            \/ /\ mover[m].pc = "renewing" /\ sub.status = mover[m].seen
               /\ sub'.status = "CANCELED"
            \/ sub.status = "TRIALING" /\ sub'.status = "PAST_DUE"
         /\ \/ mover' = [mover EXCEPT ![m] = IdleMover]
            \/ /\ mover' = [mover EXCEPT ![m] = [IdleMover EXCEPT !.pc = "renewing",
                                                                !.seen = sub.status]]
               /\ invoice' = invoice /\ sub' = sub
               /\ sub.status \in {"TRIALING", "ACTIVE", "PAST_DUE", "GRACE_PERIOD", "UNPAID"}
         /\ mover[m].pc # "renewing" => invoice' = invoice /\ sub' = sub
<1>1. CASE BeginRenewal(m)
  BY <1>1 DEF BeginRenewal, TypeOK, SubscriptionRow, Status
<1>2. CASE CancelAtPeriodEnd(m) \/ RenewalLost(m)
  BY <1>2 DEF CancelAtPeriodEnd, RenewalLost, TypeOK, SubscriptionRow, Status
<1>3. ASSUME NEW i \in Invoices, CommitRenewal(m, i) PROVE
         /\ invoice' \in [Invoices -> InvoiceRow]
         /\ \A j \in Invoices : /\ invoice[j].status # "NONE" => invoice'[j] = invoice[j]
                                /\ invoice'[j].amountPaid = invoice[j].amountPaid
         /\ sub' \in SubscriptionRow
         /\ sub' = sub \/ (sub.status = "TRIALING" /\ sub'.status = "PAST_DUE")
  BY <1>3 DEF CommitRenewal, TypeOK, InvoiceRow, SubscriptionRow, Status
<1>4. ASSUME NEW i \in Invoices, CommitRenewal(m, i) PROVE
         /\ UNCHANGED <<tokenized, failureAction, attempt, charge, worker>>
         /\ mover' = [mover EXCEPT ![m] = IdleMover]
         /\ mover[m].pc = "renewing"
  BY <1>4 DEF CommitRenewal
<1> QED
  BY <1>1, <1>2, <1>3, <1>4 DEF RenewalStep

LEMMA MoverShape ==
  ASSUME Shape, MoverOK, NEW m \in Movers, MoverStep(m) PROVE Shape'
<1> USE DEF Shape
<1>1. CASE \E target : Decide(m, target)
  <2>1. PICK target : Decide(m, target)
    BY <1>1
  <2>2. sub.status \in Status /\ target \in Status
    BY <2>1 DEF Decide, CanTransition, Transitions, TypeOK, SubscriptionRow, Status
  <2> QED
    BY <2>1, <2>2 DEF Decide, TypeOK, MoverState, AttemptOK, WorkerOK
<1>2. CASE ApplyTransition(m) \/ CommitVoid(m)
  <2>1. /\ invoice' \in [Invoices -> InvoiceRow]
        /\ \A i \in Invoices : Billed(invoice[i]) => Billed(invoice'[i])
    BY <1>2 DEF ApplyTransition, CommitVoid, VoidWithExpiry, TypeOK, InvoiceRow, Billed
  <2>2. sub' \in SubscriptionRow
    BY <1>2 DEF ApplyTransition, CommitVoid, TypeOK, SubscriptionRow, MoverOK, Status
  <2> QED
    BY <1>2, <2>1, <2>2, IdleTyped DEF ApplyTransition, CommitVoid, TypeOK, AttemptOK, WorkerOK
<1>3. CASE TransitionLost(m)
  BY <1>3, IdleTyped DEF TransitionLost, TypeOK, AttemptOK, WorkerOK
<1>4. ASSUME NEW i \in Invoices, BeginVoid(m, i) PROVE Shape'
  BY <1>4, IdleTyped DEF BeginVoid, TypeOK, MoverState, AttemptOK, WorkerOK
<1>5. CASE RenewalStep(m)
  <2>1. [IdleMover EXCEPT !.pc = "renewing", !.seen = sub.status] \in MoverState
    BY DEF IdleMover, MoverState, TypeOK, SubscriptionRow
  <2>2. \E state \in MoverState : mover' = [mover EXCEPT ![m] = state]
    BY <1>5, <2>1, RenewalEffect, IdleTyped
  <2>3. mover' \in [Movers -> MoverState]
    BY <2>2 DEF TypeOK
  <2>4. TypeOK'
    BY <1>5, <2>3, RenewalEffect DEF TypeOK
  <2>5. AttemptOK' /\ WorkerOK'
    BY <1>5, RenewalEffect DEF AttemptOK, WorkerOK, Billed
  <2> QED
    BY <2>4, <2>5
<1> QED
  BY <1>1, <1>2, <1>3, <1>4, <1>5
  DEF MoverStep, CancelSubscription, PauseSubscription, ResumeSubscription, ExpireGracePeriod, ExpireIncomplete

\* A proration adds an invoice where there was none, and touches nothing else.
LEMMA ProrationEffect ==
  ASSUME TypeOK, NEW i \in Invoices, IssueProration(i)
  PROVE  /\ UNCHANGED <<sub, tokenized, failureAction, attempt, charge, worker, mover>>
         /\ invoice' \in [Invoices -> InvoiceRow]
         /\ \A j \in Invoices : /\ invoice[j].status # "NONE" => invoice'[j] = invoice[j]
                                /\ invoice'[j].amountPaid = invoice[j].amountPaid
                                /\ j # i => invoice'[j] = invoice[j]
         /\ sub.status = "EXPIRED" => invoice'[i].late
<1>1. PICK s \in {"OPEN", "PAID"}, e \in BOOLEAN :
        /\ invoice' = [invoice EXCEPT ![i].status = s, ![i].late = e]
        /\ sub.status = "EXPIRED" => e
  BY DEF IssueProration
<1>2. invoice[i].status = "NONE"
      /\ UNCHANGED <<sub, tokenized, failureAction, attempt, charge, worker, mover>>
  BY DEF IssueProration
<1> QED
  BY <1>1, <1>2 DEF TypeOK, InvoiceRow

LEMMA ProrationShape ==
  ASSUME Shape, NEW i \in Invoices, IssueProration(i) PROVE Shape'
<1> USE DEF Shape
<1>1. TypeOK'
  BY ProrationEffect DEF TypeOK
<1>2. /\ attempt' = attempt /\ charge' = charge /\ worker' = worker
      /\ \A j \in Invoices : Billed(invoice[j]) => Billed(invoice'[j])
  BY ProrationEffect DEF Billed
<1>3. AttemptOK' /\ WorkerOK'
  BY <1>2 DEF AttemptOK, WorkerOK
<1> QED
  BY <1>1, <1>3

LEMMA WorldShape ==
  ASSUME Shape, WorldStep PROVE Shape'
<1> USE DEF Shape
<1>1. ASSUME NEW a \in Attempts, ChargeResolves(a) PROVE Shape'
  BY <1>1 DEF ChargeResolves, TypeOK, AttemptOK, WorkerOK, ChargeState
<1>2. ASSUME NEW a \in Attempts, FiveMinutesPass(a) PROVE Shape'
  BY <1>2 DEF FiveMinutesPass, TypeOK, AttemptOK, WorkerOK, AttemptRow
<1>3. CASE GraceElapses
  BY <1>3 DEF GraceElapses, TypeOK, AttemptOK, WorkerOK, SubscriptionRow
<1>4. CASE ChangeFailureAction
  BY <1>4 DEF ChangeFailureAction, TypeOK, AttemptOK, WorkerOK
<1> QED
  BY <1>1, <1>2, <1>3, <1>4 DEF WorldStep

-----------------------------------------------------------------------------
(* The subscription row: who writes it, and what each writer knows.        *)

\* Every step that is not a mover's or the world's leaves the movers alone, and
\* changes the subscription only as Lapsed or Recovered say.
LEMMA WorkerStepSub ==
  ASSUME NEW p \in Workers,
         CallerStep(p) \/ SettlerStep(p) \/ ApplyStep(p) \/ Crash(p)
  PROVE  /\ mover' = mover
         /\ \/ sub' = sub
            \/ sub' = Lapsed
            \/ CommitPayment(p) /\ sub' = Recovered(p)
<1>1. CASE CallerStep(p)
  BY <1>1 DEF CallerStep, LoadInvoice, CreateAttempt, RefuseAttempt, ProviderReceives,
              ProviderAnswers, ProviderRefuses, ProviderTimesOut, CatchError, HandlePaymentFailure
<1>2. CASE SettlerStep(p)
  BY <1>2 DEF SettlerStep, WebhookArrives, SyncPaymentAttempt, Reconcile, VerifyPayment
<1>3. CASE ApplyStep(p) \/ Crash(p)
  BY <1>3 DEF ApplyStep, Crash, BeginApply, ApplyPending, ApplyFailure, FailureLost,
              ReadInvoice, CommitPayment, RollBackPayment
<1> QED
  BY <1>1, <1>2, <1>3

LEMMA MoverInv ==
  ASSUME TypeOK, MoverOK, [Next]_vars PROVE MoverOK'
<1>1. ASSUME NEW p \in Workers,
             CallerStep(p) \/ SettlerStep(p) \/ ApplyStep(p) \/ Crash(p)
      PROVE  MoverOK'
  <2>1. /\ mover' = mover
        /\ sub' = sub \/ sub' = Lapsed \/ sub' = Recovered(p)
    BY <1>1, WorkerStepSub
  <2> QED
    BY <2>1 DEF MoverOK, Lapsed, Recovered, TypeOK
<1>2. ASSUME NEW m \in Movers, MoverStep(m) PROVE MoverOK'
  <2>1. ASSUME NEW target, Decide(m, target),
               target \in {"CANCELED", "PAUSED", "UNPAID", "ACTIVE", "EXPIRED"},
               target = "ACTIVE" => sub.status = "PAUSED",
               target = "EXPIRED" => sub.status = "INCOMPLETE",
               target = "UNPAID" => sub.status = "GRACE_PERIOD"
        PROVE  MoverOK'
    BY <2>1 DEF Decide, CanTransition, MoverOK, TypeOK, MoverState, SubscriptionRow
  <2>2. ASSUME ExpireGracePeriod(m) PROVE MoverOK'
    <3>1. StatusForFailureAction[sub.gracePolicy] \in {"CANCELED", "PAUSED", "UNPAID"}
      <4>1. sub.gracePolicy \in {"MARK_UNPAID", "CANCEL", "PAUSE"}
        BY <2>2, PaymentsAssumption DEF ExpireGracePeriod, MoverOK, FailureAction
      <4> QED
        BY <4>1 DEF StatusForFailureAction
    <3> QED
      BY <2>1, <2>2, <3>1 DEF ExpireGracePeriod
  <2>3. CASE ApplyTransition(m)
    <3>1. sub'.status # "GRACE_PERIOD"
      BY <2>3 DEF ApplyTransition, MoverOK, TypeOK, SubscriptionRow
    <3> QED
      BY <2>3, <3>1 DEF ApplyTransition, MoverOK, TypeOK, IdleMover
  <2>4. CASE TransitionLost(m) \/ CommitVoid(m)
    BY <2>4 DEF TransitionLost, CommitVoid, MoverOK, TypeOK, IdleMover
  <2>5. ASSUME NEW i \in Invoices, BeginVoid(m, i) PROVE MoverOK'
    BY <2>5 DEF BeginVoid, MoverOK, TypeOK, IdleMover
  <2>6. CASE RenewalStep(m)
    <3>1. sub'.status = "GRACE_PERIOD" => sub' = sub
      BY <2>6, RenewalEffect
    <3>2. /\ \A n \in Movers \ {m} : mover'[n] = mover[n]
          /\ mover'[m].pc # "moving"
          /\ mover'[m].pc = "renewing" =>
               mover'[m].seen \in {"TRIALING", "ACTIVE", "PAST_DUE", "GRACE_PERIOD", "UNPAID"}
      <4>1. CASE mover' = [mover EXCEPT ![m] = IdleMover]
        BY <4>1 DEF TypeOK, IdleMover
      <4>2. CASE mover' = [mover EXCEPT ![m] = [IdleMover EXCEPT !.pc = "renewing",
                                                                 !.seen = sub.status]]
        <5>1. mover'[m].pc = "renewing" /\ mover'[m].seen = sub.status
          BY <4>2 DEF TypeOK, IdleMover
        <5>2. sub.status \in {"TRIALING", "ACTIVE", "PAST_DUE", "GRACE_PERIOD", "UNPAID"}
          BY <2>6, <5>1, RenewalEffect DEF TypeOK, IdleMover
        <5> QED
          BY <4>2, <5>1, <5>2 DEF TypeOK
      <4> QED
        BY <2>6, <4>1, <4>2, RenewalEffect
    <3> QED
      BY <3>1, <3>2, <2>6, RenewalEffect DEF MoverOK
  <2> QED
    BY <1>2, <2>1, <2>2, <2>3, <2>4, <2>5, <2>6 DEF MoverStep, CancelSubscription, PauseSubscription, ResumeSubscription, ExpireIncomplete
<1>3. CASE WorldStep
  BY <1>3 DEF WorldStep, ChargeResolves, FiveMinutesPass, GraceElapses,
              ChangeFailureAction, MoverOK, TypeOK, SubscriptionRow
<1>4. CASE UNCHANGED vars
  BY <1>4 DEF vars, MoverOK
<1>5. ASSUME NEW i \in Invoices, IssueProration(i) PROVE MoverOK'
  BY <1>5 DEF IssueProration, MoverOK
<1> QED
  BY <1>1, <1>2, <1>3, <1>4, <1>5 DEF Next, Workers

LEMMA ShapeInv ==
  ASSUME Shape, MoverOK, [Next]_vars PROVE Shape'
<1>1. CASE UNCHANGED vars
  BY <1>1 DEF vars, Shape, TypeOK, AttemptOK, WorkerOK
<1> QED
  BY <1>1, CallerShape, SettlerShape, ApplyShape, MoverShape, ProrationShape, WorldShape DEF Next

LEMMA InitShapeMover == Init => Shape /\ MoverOK
<1>1. Init => sub.status # "GRACE_PERIOD" /\ \A m \in Movers : mover[m].pc = "idle"
  BY DEF Init, IdleMover
<1> QED
  BY <1>1, InitShape DEF MoverOK

\* Every row keeps its type: attempts, invoices and workers, whatever crashes,
\* retries and races happen (the shape every transaction of payments.ts relies on).
THEOREM TypeCorrect == Spec => []TypeOK
<1>1. Init => Shape /\ MoverOK
  BY InitShapeMover
<1>2. Shape /\ MoverOK /\ [Next]_vars => (Shape /\ MoverOK)'
  BY ShapeInv, MoverInv DEF Shape
<1> QED
  BY <1>1, <1>2, PTL DEF Spec, Shape

-----------------------------------------------------------------------------
(* The money: who may record it, and on what evidence.                     *)

\* A worker that carries a success carries it for a charge that was collected.
AnswerOK ==
  \A p \in Workers :
    worker[p].pc \in Busy /\ worker[p].answer = "SUCCEEDED" => worker[p].att \in Collected

\* What happened to an attempt is never taken back: it stays on its invoice, and
\* what was collected stays collected.
Remembered ==
  \A a \in Attempts :
    /\ attempt[a].status # "NONE" => attempt'[a].inv = attempt[a].inv
    /\ a \in Collected => a \in Collected'

\* No step but CommitPayment records money.
NothingRecorded ==
  /\ \A a \in Attempts : attempt'[a].status = "SUCCEEDED" => attempt[a].status = "SUCCEEDED"
  /\ \A i \in Invoices : invoice'[i].amountPaid = invoice[i].amountPaid

LEMMA MoneyFrame ==
  ASSUME Shape, RecordedMoneyWasCollected, Remembered, NothingRecorded
  PROVE  RecordedMoneyWasCollected'
<1>1. \A a \in Collected : attempt[a].status # "NONE"
  BY DEF Shape, AttemptOK, Collected
<1> QED
  BY <1>1 DEF RecordedMoneyWasCollected, Remembered, NothingRecorded, Collected

LEMMA CallerMoney ==
  ASSUME Shape, AnswerOK, NEW c \in Callers, CallerStep(c)
  PROVE  Remembered /\ NothingRecorded /\ AnswerOK'
<1> USE DEF Shape
<1>0. c \in Workers /\ worker[c] \in WorkerState
  BY DEF Workers, TypeOK
<1>1. ASSUME NEW i \in Invoices, NEW force \in BOOLEAN, LoadInvoice(c, i, force)
      PROVE  Remembered /\ NothingRecorded /\ AnswerOK'
  <2>1. /\ UNCHANGED <<attempt, invoice, charge>>
        /\ worker'[c].pc \notin Busy
        /\ \A p \in Workers \ {c} : worker'[p] = worker[p]
    BY <1>0, <1>1 DEF LoadInvoice, TypeOK, IdleWorker, Busy
  <2> QED
    BY <2>1 DEF Remembered, NothingRecorded, AnswerOK, Collected
<1>2. CASE \/ RefuseAttempt(c) \/ ProviderTimesOut(c) \/ HandlePaymentFailure(c)
  <2>1. /\ UNCHANGED <<attempt, invoice, charge>>
        /\ worker'[c].pc \notin Busy
        /\ \A p \in Workers \ {c} : worker'[p] = worker[p]
    BY <1>0, <1>2 DEF RefuseAttempt, ProviderTimesOut, HandlePaymentFailure,
                      TypeOK, IdleWorker, Busy
  <2> QED
    BY <2>1 DEF Remembered, NothingRecorded, AnswerOK, Collected
<1>3. CASE CreateAttempt(c)
  <2>1. PICK a \in NextAttempt :
          /\ attempt' = [attempt EXCEPT ![a] = [inv |-> worker[c].inv,
                                                status |-> "PROCESSING", fresh |-> TRUE]]
          /\ worker' = [worker EXCEPT ![c].pc = "charging", ![c].att = a]
    BY <1>3 DEF CreateAttempt
  <2>2. Remembered /\ NothingRecorded
    BY <1>3, <2>1 DEF CreateAttempt, NextAttempt, Remembered, NothingRecorded, TypeOK, Collected
  <2>3. worker[c].answer = "none"
    BY <1>0, <1>3 DEF CreateAttempt, WorkerOK
  <2>4. AnswerOK'
    BY <1>0, <1>3, <2>1, <2>3 DEF CreateAttempt, AnswerOK, TypeOK, Collected
  <2> QED
    BY <2>2, <2>4
<1>4. CASE ProviderReceives(c)
  <2>1. Remembered /\ NothingRecorded
    BY <1>4 DEF ProviderReceives, Remembered, NothingRecorded, TypeOK, Collected
  <2>2. AnswerOK'
    BY <1>4, <2>1 DEF ProviderReceives, AnswerOK, Remembered, WorkerOK
  <2> QED
    BY <2>1, <2>2
<1>5. CASE ProviderAnswers(c)
  <2>1. Remembered /\ NothingRecorded /\ Collected' = Collected
    BY <1>5 DEF ProviderAnswers, Remembered, NothingRecorded, Collected
  <2>2. worker[c].att \in Attempts
    BY <1>0, <1>5 DEF ProviderAnswers, WorkerOK, Busy
  <2>3. Report[charge[worker[c].att]] = "SUCCEEDED" => worker[c].att \in Collected
    BY <1>5, <2>2 DEF ProviderAnswers, TypeOK, ChargeState, Report, Collected
  <2>4. AnswerOK'
    BY <1>0, <1>5, <2>1, <2>3 DEF ProviderAnswers, AnswerOK, TypeOK
  <2> QED
    BY <2>1, <2>4
<1>6. CASE ProviderRefuses(c)
  BY <1>0, <1>6 DEF ProviderRefuses, Remembered, NothingRecorded, AnswerOK, TypeOK, Collected, Busy
<1>7. CASE CatchError(c)
  <2>1. Remembered /\ NothingRecorded /\ Collected' = Collected
    BY <1>7 DEF CatchError, Settle, Remembered, NothingRecorded, TypeOK, AttemptRow, Collected
  <2>2. AnswerOK'
    BY <1>0, <1>7, <2>1 DEF CatchError, AnswerOK, TypeOK, IdleWorker, Busy
  <2> QED
    BY <2>1, <2>2
<1> QED
  BY <1>1, <1>2, <1>3, <1>4, <1>5, <1>6, <1>7 DEF CallerStep

LEMMA SettlerMoney ==
  ASSUME Shape, AnswerOK, NEW s \in Settlers, SettlerStep(s)
  PROVE  Remembered /\ NothingRecorded /\ AnswerOK'
<1>1. PICK a \in Attempts : VerifyPayment(s, a)
  BY DEF SettlerStep, WebhookArrives, SyncPaymentAttempt, Reconcile
<1>2. Remembered /\ NothingRecorded /\ Collected' = Collected
  BY <1>1 DEF VerifyPayment, Remembered, NothingRecorded, Collected
<1>3. Report[charge[a]] = "SUCCEEDED" => a \in Collected
  BY <1>1 DEF VerifyPayment, Shape, TypeOK, ChargeState, Report, Collected
<1>4. AnswerOK'
  BY <1>1, <1>2, <1>3 DEF VerifyPayment, Shape, TypeOK, AnswerOK, Workers, IdleWorker
<1> QED
  BY <1>2, <1>4

\* The only step that records money does so for the attempt whose charge was
\* collected, on the invoice that attempt was made for.
LEMMA ApplyMoney ==
  ASSUME Shape, AnswerOK, RecordedMoneyWasCollected,
         NEW p \in Workers, ApplyStep(p) \/ Crash(p)
  PROVE  AnswerOK' /\ RecordedMoneyWasCollected'
<1> USE DEF Shape
<1>0. worker[p] \in WorkerState
  BY DEF TypeOK
<1>1. Collected' = Collected
  BY DEF ApplyStep, Crash, BeginApply, ApplyPending, ApplyFailure, FailureLost, ReadInvoice,
         CommitPayment, RollBackPayment, Collected
<1>2. /\ \A q \in Workers \ {p} : worker'[q] = worker[q]
      /\ worker'[p].pc \in Busy => /\ worker[p].pc \in Busy
                                   /\ worker'[p].answer = worker[p].answer
                                   /\ worker'[p].att = worker[p].att
  <2>1. CASE Crash(p) \/ ApplyPending(p) \/ ApplyFailure(p) \/ CommitPayment(p)
    BY <1>0, <2>1 DEF Crash, ApplyPending, ApplyFailure, CommitPayment, TypeOK, IdleWorker, Busy
  <2>2. CASE FailureLost(p) \/ RollBackPayment(p)
    BY <1>0, <2>2 DEF FailureLost, RollBackPayment, Applying, Thrown, TypeOK, IdleWorker, Busy, WorkerState
  <2>3. CASE BeginApply(p)
    BY <1>0, <2>3 DEF BeginApply, Thrown, TypeOK, IdleWorker, Busy, WorkerState
  <2>4. CASE ReadInvoice(p)
    BY <1>0, <2>4 DEF ReadInvoice, Applying, Thrown, TypeOK, IdleWorker, Busy, WorkerState
  <2> QED
    BY <2>1, <2>2, <2>3, <2>4 DEF ApplyStep
<1>3. AnswerOK'
  BY <1>1, <1>2 DEF AnswerOK
<1>4. CASE CommitPayment(p)
  <2>1. worker[p].att \in Collected
    BY <1>4 DEF CommitPayment, WorkerOK, AnswerOK, Busy
  <2>2. /\ attempt' = Settle(worker[p].att, "SUCCEEDED")
        /\ invoice' = [invoice EXCEPT ![attempt[worker[p].att].inv].status = "PAID",
                                      ![attempt[worker[p].att].inv].amountPaid = worker[p].paid + 1]
    BY <1>4 DEF CommitPayment
  <2>3. \A a \in Attempts : attempt'[a].inv = attempt[a].inv
    BY <2>2 DEF Settle, TypeOK, AttemptRow
  <2>4. \A a \in Attempts : attempt'[a].status = "SUCCEEDED" => a \in Collected
    BY <2>1, <2>2 DEF Settle, TypeOK, RecordedMoneyWasCollected
  <2>5. ASSUME NEW i \in Invoices, invoice'[i].amountPaid > 0
        PROVE  \E a \in Collected : attempt'[a].inv = i
    BY <2>1, <2>2, <2>3, <2>5 DEF TypeOK, RecordedMoneyWasCollected, Collected
  <2> QED
    BY <1>1, <1>3, <2>4, <2>5 DEF RecordedMoneyWasCollected
<1>5. CASE ~CommitPayment(p)
  <2>1. Remembered /\ NothingRecorded
    BY <1>1, <1>5 DEF ApplyStep, Crash, BeginApply, ApplyPending, ApplyFailure, FailureLost,
                 ReadInvoice, RollBackPayment, Settle, Remembered, NothingRecorded, TypeOK, AttemptRow
  <2> QED
    BY <1>3, <2>1, MoneyFrame
<1> QED
  BY <1>3, <1>4, <1>5

LEMMA MoverMoney ==
  ASSUME Shape, AnswerOK,
         \/ \E m \in Movers : MoverStep(m)
         \/ \E i \in Invoices : IssueProration(i)
         \/ WorldStep \/ UNCHANGED vars
  PROVE  Remembered /\ NothingRecorded /\ AnswerOK'
<1>1. CASE UNCHANGED vars
  BY <1>1 DEF vars, Remembered, NothingRecorded, AnswerOK, Collected
<1>2. ASSUME NEW m \in Movers, MoverStep(m) PROVE Remembered /\ NothingRecorded /\ AnswerOK'
  <2>1. UNCHANGED <<attempt, charge, worker>> /\ \A i \in Invoices : invoice'[i].amountPaid = invoice[i].amountPaid
    <3>1. CASE ApplyTransition(m) \/ CommitVoid(m)
      BY <3>1 DEF ApplyTransition, VoidWithExpiry, CommitVoid, Shape, TypeOK, InvoiceRow
    <3>2. CASE RenewalStep(m)
      BY <3>2, RenewalEffect DEF Shape
    <3>3. CASE ~(ApplyTransition(m) \/ CommitVoid(m) \/ RenewalStep(m))
      BY <1>2, <3>3 DEF MoverStep, CancelSubscription, PauseSubscription, ResumeSubscription,
                        ExpireGracePeriod, ExpireIncomplete, Decide, TransitionLost, BeginVoid
    <3> QED
      BY <3>1, <3>2, <3>3
  <2> QED
    BY <2>1 DEF Remembered, NothingRecorded, AnswerOK, Collected
<1>3. CASE WorldStep
  <2>1. /\ \A i \in Invoices : invoice'[i].amountPaid = invoice[i].amountPaid
        /\ \A a \in Attempts : /\ attempt'[a].inv = attempt[a].inv
                               /\ attempt'[a].status = attempt[a].status
                               /\ charge[a] = "collected" => charge'[a] = "collected"
        /\ worker' = worker
    BY <1>3 DEF WorldStep, ChargeResolves, FiveMinutesPass, GraceElapses,
                ChangeFailureAction, Shape, TypeOK, InvoiceRow, AttemptRow
  <2>2. Remembered /\ NothingRecorded
    BY <2>1 DEF Remembered, NothingRecorded, Collected
  <2>3. AnswerOK'
    BY <2>1 DEF AnswerOK, Collected
  <2> QED
    BY <2>2, <2>3
<1>4. ASSUME NEW i \in Invoices, IssueProration(i) PROVE Remembered /\ NothingRecorded /\ AnswerOK'
  BY <1>4, ProrationEffect DEF Shape, Remembered, NothingRecorded, AnswerOK, Collected
<1> QED
  BY <1>1, <1>2, <1>3, <1>4

\* No success is booked, on an attempt or on an invoice, without a charge the
\* provider collected for it (applyPaymentResult's amount and currency checks).
THEOREM BooksFollowTheProvider == Spec => []RecordedMoneyWasCollected
<1> DEFINE Money == AnswerOK /\ RecordedMoneyWasCollected
<1>1. Init => Shape /\ MoverOK /\ Money
  <2>1. Init => Shape /\ MoverOK
    BY InitShapeMover
  <2>2. Init => Money
    BY DEF Init, AnswerOK, RecordedMoneyWasCollected, NewInvoice, IdleWorker, Busy
  <2> QED
    BY <2>1, <2>2
<1>2. Shape /\ MoverOK /\ [Next]_vars => (Shape /\ MoverOK)'
  BY ShapeInv, MoverInv DEF Shape
<1>3. Shape /\ Money /\ [Next]_vars => Money'
  BY CallerMoney, SettlerMoney, ApplyMoney, MoverMoney, MoneyFrame DEF Next
<1> QED
  BY <1>1, <1>2, <1>3, PTL DEF Spec


-----------------------------------------------------------------------------
(***************************************************************************)
(* What the races between payments, requests and sweeps can do to the      *)
(* subscription itself: it keeps SubscriptionContract, an expired sign-up  *)
(* owes nothing, a grace period runs its course, and no two fresh charges  *)
(* are in flight for one invoice.                                          *)
(***************************************************************************)

Inv == Shape /\ MoverOK /\ AnswerOK

LEMMA InitIdle ==
  Init => /\ \A a \in Attempts : attempt[a].status = "NONE"
          /\ \A p \in Workers : worker[p].pc = "idle"
  BY DEF Init, IdleWorker

LEMMA InvHolds == Init => Inv
  BY InitShapeMover, InitIdle DEF Inv, AnswerOK, Busy

LEMMA InvKept == ASSUME Inv, RecordedMoneyWasCollected, [Next]_vars PROVE Inv'
<1>1. Shape' /\ MoverOK'
  BY ShapeInv, MoverInv DEF Inv, Shape
<1>2. AnswerOK'
  BY CallerMoney, SettlerMoney, ApplyMoney, MoverMoney DEF Inv, Next
<1> QED
  BY <1>1, <1>2 DEF Inv

-----------------------------------------------------------------------------
(* One charge in flight.                                                   *)

LEMMA OneChargeStep ==
  ASSUME Inv, OneChargeInFlight, [Next]_vars PROVE OneChargeInFlight'
<1> USE DEF Inv, Shape
<1>1. ASSUME NEW c \in Callers, CreateAttempt(c) PROVE OneChargeInFlight'
  <2>1. PICK a \in NextAttempt :
          attempt' = [attempt EXCEPT ![a] = [inv |-> worker[c].inv,
                                             status |-> "PROCESSING", fresh |-> TRUE]]
    BY <1>1 DEF CreateAttempt
  <2>2. \A b \in Attempts : b # a /\ attempt'[b].inv = worker[c].inv /\ attempt'[b].status = "PROCESSING"
                              => ~attempt'[b].fresh
    BY <1>1, <2>1 DEF CreateAttempt, InFlight, NextAttempt, TypeOK
  <2>3. a \in Attempts /\ attempt'[a].inv = worker[c].inv /\ \A b \in Attempts \ {a} : attempt'[b] = attempt[b]
    BY <2>1 DEF NextAttempt, TypeOK
  <2> QED
    BY <2>2, <2>3 DEF OneChargeInFlight
<1>2. CASE \A a \in Attempts :
             /\ attempt'[a].inv = attempt[a].inv
             /\ attempt'[a].fresh /\ attempt'[a].status = "PROCESSING"
                  => attempt[a].fresh /\ attempt[a].status = "PROCESSING"
  BY <1>2 DEF OneChargeInFlight
<1>3. CASE attempt' = attempt
  BY <1>3 DEF OneChargeInFlight
<1>4. CASE \E a \in Attempts, status \in Unsettled \cup Terminal : attempt' = Settle(a, status)
  BY <1>2, <1>4 DEF Settle, TypeOK, AttemptRow
<1>5. ASSUME NEW a \in Attempts, FiveMinutesPass(a) PROVE OneChargeInFlight'
  BY <1>2, <1>5 DEF FiveMinutesPass, TypeOK, AttemptRow
<1>6. ASSUME NEW p \in Workers,
             (p \in Callers /\ CallerStep(p)) \/ SettlerStep(p) \/ ApplyStep(p) \/ Crash(p),
             \A c \in Callers : ~CreateAttempt(c)
      PROVE  OneChargeInFlight'
  <2>1. CASE CatchError(p) \/ ApplyPending(p) \/ ApplyFailure(p) \/ CommitPayment(p)
    <3>1. worker[p].att \in Attempts
      BY <2>1 DEF CatchError, ApplyPending, ApplyFailure, CommitPayment, Applying, WorkerOK, Busy
    <3> QED
      BY <1>4, <2>1, <3>1 DEF CatchError, ApplyPending, ApplyFailure, CommitPayment, Unsettled, Terminal
  <2>2. CASE ~(CatchError(p) \/ ApplyPending(p) \/ ApplyFailure(p) \/ CommitPayment(p))
    BY <1>3, <1>6, <2>2 DEF CallerStep, LoadInvoice, RefuseAttempt, ProviderReceives, ProviderAnswers,
       ProviderRefuses, ProviderTimesOut, HandlePaymentFailure, SettlerStep, WebhookArrives,
       SyncPaymentAttempt, Reconcile, VerifyPayment, ApplyStep, Crash, BeginApply, FailureLost,
       ReadInvoice, RollBackPayment
  <2> QED
    BY <2>1, <2>2
<1>7. ASSUME NEW m \in Movers, MoverStep(m) PROVE OneChargeInFlight'
  BY <1>3, <1>7, RenewalEffect DEF MoverStep, CancelSubscription, PauseSubscription, ResumeSubscription,
     ExpireGracePeriod, ExpireIncomplete, Decide, ApplyTransition, TransitionLost, BeginVoid, CommitVoid
<1>8. CASE WorldStep
  BY <1>3, <1>5, <1>8 DEF WorldStep, ChargeResolves, GraceElapses, ChangeFailureAction
<1>9. CASE UNCHANGED vars
  BY <1>3, <1>9 DEF vars
<1>12. ASSUME NEW i \in Invoices, IssueProration(i) PROVE OneChargeInFlight'
  BY <1>3, <1>12 DEF IssueProration
<1>10. CASE \E c \in Callers : CreateAttempt(c)
  BY <1>1, <1>10
<1>11. CASE ~\E c \in Callers : CreateAttempt(c)
  <2>1. CASE \E p \in Workers : (p \in Callers /\ CallerStep(p)) \/ SettlerStep(p) \/ ApplyStep(p) \/ Crash(p)
    BY <1>6, <1>11, <2>1
  <2> QED
    BY <1>7, <1>8, <1>9, <1>12, <2>1 DEF Next, Workers
<1> QED
  BY <1>10, <1>11

\* However many callers, retries and crashes there are, at most one attempt per
\* invoice is younger than five minutes and unanswered (the advisory lock of
\* attemptInvoicePayment).
THEOREM ChargesDoNotOverlap == Spec => []OneChargeInFlight
<1>1. Init => Inv /\ OneChargeInFlight
  BY InvHolds, InitIdle DEF OneChargeInFlight
<1>2. Inv /\ OneChargeInFlight /\ RecordedMoneyWasCollected /\ [Next]_vars => (Inv /\ OneChargeInFlight)'
  BY InvKept, OneChargeStep
<1> QED
  BY <1>1, <1>2, BooksFollowTheProvider, PTL DEF Spec

-----------------------------------------------------------------------------
(* A sign-up that expires.                                                 *)

\* Until the first payment commits nothing is booked, and whoever is applying
\* one has read a status that the swap will compare; after the expiry only an
\* invoice issued since then can still be paid.
SignupOK ==
  /\ sub.status = "INCOMPLETE" => \A i \in Invoices : invoice[i].amountPaid = 0
  /\ \A p \in Workers :
       /\ sub.status = "INCOMPLETE" /\ worker[p].pc \in {"applying", "posting"} =>
            worker[p].seen = "INCOMPLETE"
       /\ sub.status = "EXPIRED" /\ worker[p].pc = "applying" =>
            worker[p].seen \in {"INCOMPLETE", "EXPIRED"}
       /\ sub.status = "EXPIRED" /\ worker[p].pc = "posting" =>
            worker[p].seen = "INCOMPLETE" \/ invoice[attempt[worker[p].att].inv].late
  /\ \A m \in Movers :
       mover[m].pc = "renewing" => sub.status \notin {"INCOMPLETE", "EXPIRED"}

Signup == SignupOK /\ ExpiredOwesNothing

\* An attempt stays on the invoice it was made for.
SameInvoices ==
  \A a \in Attempts : attempt[a].status # "NONE" => attempt'[a].inv = attempt[a].inv

\* Steps that leave the invoices alone, let nobody begin to apply, and move the
\* subscription only away from a sign-up.
LEMMA SignupFrame ==
  ASSUME Signup, Inv, SameInvoices, invoice' = invoice,
         sub'.status \in {"INCOMPLETE", "EXPIRED"} => sub'.status = sub.status,
         \A p \in Workers : worker'[p].pc \in {"applying", "posting"} =>
            worker'[p].pc = worker[p].pc /\ worker'[p].seen = worker[p].seen
            /\ worker'[p].att = worker[p].att,
         \A m \in Movers : mover'[m].pc = "renewing" => mover[m].pc = "renewing"
  PROVE  Signup'
<1>1. \A p \in Workers : worker[p].pc = "posting" =>
        attempt'[worker[p].att].inv = attempt[worker[p].att].inv
  BY DEF Inv, Shape, WorkerOK, Busy, SameInvoices
<1> QED
  BY <1>1 DEF Signup, SignupOK, ExpiredOwesNothing

LEMMA WorkerSignup ==
  ASSUME Inv, Signup, NEW p \in Workers,
         (p \in Callers /\ CallerStep(p)) \/ SettlerStep(p) \/ ApplyStep(p) \/ Crash(p)
  PROVE  Signup'
<1> USE DEF Inv, Shape
<1>0. worker[p] \in WorkerState
  BY DEF TypeOK
<1>1. CASE BeginApply(p)
  <2>1. /\ UNCHANGED <<sub, invoice, attempt, mover>>
        /\ \A q \in Workers \ {p} : worker'[q] = worker[q]
        /\ worker'[p].pc # "posting"
        /\ worker'[p].pc = "applying" => worker'[p].seen = sub.status
    BY <1>0, <1>1 DEF BeginApply, TypeOK, Thrown, IdleWorker, WorkerState
  <2> QED
    BY <2>1 DEF Signup, SignupOK, ExpiredOwesNothing
<1>2. CASE ReadInvoice(p)
  <2>1. /\ UNCHANGED <<sub, invoice, mover>>
        /\ \A q \in Workers \ {p} : worker'[q] = worker[q]
        /\ worker[p].pc = "applying"
        /\ worker'[p].pc # "applying"
        /\ attempt' = attempt
        /\ worker'[p].pc = "posting" => worker'[p].seen = worker[p].seen /\ worker'[p].att = worker[p].att
        /\ invoice[attempt[worker[p].att].inv].status = "VOID" => worker'[p].pc # "posting"
    BY <1>0, <1>2 DEF ReadInvoice, Applying, TypeOK, Thrown, IdleWorker, WorkerState
  <2>2. /\ attempt[worker[p].att].inv \in Invoices
        /\ Billed(invoice[attempt[worker[p].att].inv])
    BY <2>1 DEF WorkerOK, AttemptOK, Busy
  <2>3. sub.status = "EXPIRED" /\ ~invoice[attempt[worker[p].att].inv].late =>
          worker'[p].pc # "posting"
    BY <2>1, <2>2 DEF Signup, ExpiredOwesNothing, Billed, TypeOK, InvoiceRow
  <2> QED
    BY <2>1, <2>3 DEF Signup, SignupOK, ExpiredOwesNothing
<1>3. CASE CommitPayment(p)
  <2> DEFINE i == attempt[worker[p].att].inv
  <2>1. /\ worker[p].pc = "posting" /\ ~CasFails(p) /\ sub' = Recovered(p)
        /\ \A q \in Workers \ {p} : worker'[q] = worker[q]
        /\ worker'[p] = IdleWorker /\ mover' = mover
    BY <1>3 DEF CommitPayment, TypeOK
  <2>2. sub'.status \notin {"INCOMPLETE", "EXPIRED"} \/ (sub' = sub /\ sub.status = "EXPIRED")
    BY <2>1 DEF CasFails, Recovers, Recovered, RecoverableStatuses, Signup, SignupOK
  <2>3. i \in Invoices /\ sub' = sub /\ sub.status = "EXPIRED" => invoice[i].late
    BY <2>1 DEF WorkerOK, AttemptOK, Busy, Signup, SignupOK, CasFails, Recovers, RecoverableStatuses
  <2>4. i \in Invoices
    BY <2>1 DEF WorkerOK, AttemptOK, Busy
  <2>5. \A j \in Invoices : /\ j # i => invoice'[j] = invoice[j]
                            /\ invoice'[j].late = invoice[j].late
    BY <1>3, <2>4 DEF CommitPayment, TypeOK, InvoiceRow
  <2>6. \A q \in Workers : worker'[q].pc \in {"applying", "posting"} =>
          /\ worker'[q] = worker[q]
          /\ attempt'[worker[q].att].inv = attempt[worker[q].att].inv
          /\ attempt[worker[q].att].inv \in Invoices
    <3>1. \A a \in Attempts : attempt'[a].inv = attempt[a].inv
      BY <1>3 DEF CommitPayment, Settle, TypeOK, AttemptRow
    <3> QED
      BY <2>1, <3>1 DEF IdleWorker, WorkerOK, AttemptOK, Busy
  <2>7. CASE sub'.status \notin {"INCOMPLETE", "EXPIRED"}
    BY <2>7 DEF Signup, SignupOK, ExpiredOwesNothing
  <2>8. CASE sub' = sub /\ sub.status = "EXPIRED"
    <3>1. ExpiredOwesNothing'
      BY <2>3, <2>4, <2>5, <2>8 DEF Signup, ExpiredOwesNothing
    <3>2. SignupOK'
      BY <2>1, <2>5, <2>6, <2>8 DEF Signup, SignupOK
    <3> QED
      BY <3>1, <3>2 DEF Signup
  <2> QED
    BY <2>2, <2>7, <2>8
<1>4. CASE ~(BeginApply(p) \/ ReadInvoice(p) \/ CommitPayment(p))
  <2>1. sub' = sub \/ sub' = Lapsed
    BY <1>4, WorkerStepSub
  <2>2. sub'.status \in {"INCOMPLETE", "EXPIRED"} => sub'.status = sub.status
    BY <2>1 DEF Lapsed
  <2>3. invoice' = invoice
    BY <1>4 DEF CallerStep, LoadInvoice, CreateAttempt, RefuseAttempt, ProviderReceives,
       ProviderAnswers, ProviderRefuses, ProviderTimesOut, CatchError, HandlePaymentFailure,
       SettlerStep, WebhookArrives, SyncPaymentAttempt, Reconcile, VerifyPayment, ApplyStep, Crash,
       ApplyPending, ApplyFailure, FailureLost, RollBackPayment
  <2>0. mover' = mover
    BY <1>4, WorkerStepSub
  <2>4. /\ \A q \in Workers \ {p} : worker'[q] = worker[q]
        /\ worker'[p].pc \notin {"applying", "posting"}
    <3>1. CASE CallerStep(p) /\ p \in Callers
      <4>1. ASSUME NEW i \in Invoices, NEW force \in BOOLEAN, LoadInvoice(p, i, force) PROVE <2>4!1 /\ <2>4!2
        BY <1>0, <4>1 DEF LoadInvoice, TypeOK, IdleWorker
      <4>2. CASE CreateAttempt(p)
        BY <1>0, <4>2 DEF CreateAttempt, TypeOK
      <4>3. CASE ProviderReceives(p)
        BY <4>3 DEF ProviderReceives
      <4>4. CASE ProviderAnswers(p) \/ ProviderRefuses(p)
        BY <1>0, <4>4 DEF ProviderAnswers, ProviderRefuses, TypeOK, WorkerState
      <4>5. CASE ProviderTimesOut(p) \/ RefuseAttempt(p) \/ HandlePaymentFailure(p)
        BY <1>0, <4>5 DEF ProviderTimesOut, RefuseAttempt, HandlePaymentFailure, TypeOK, IdleWorker
      <4>6. CASE CatchError(p)
        <5>1. worker'[p].pc = IF worker[p].rails > 1 THEN "checked" ELSE "failing"
          BY <1>0, <4>6 DEF CatchError, TypeOK, IdleWorker
        <5> QED
          BY <4>6, <5>1 DEF CatchError, TypeOK
      <4> QED
        BY <3>1, <4>1, <4>2, <4>3, <4>4, <4>5, <4>6 DEF CallerStep
    <3>2. CASE SettlerStep(p)
      BY <3>2 DEF SettlerStep, WebhookArrives, SyncPaymentAttempt, Reconcile, VerifyPayment, TypeOK, IdleWorker
    <3>3. CASE ApplyStep(p) \/ Crash(p)
      BY <1>0, <1>4, <3>3 DEF ApplyStep, Crash, ApplyPending, ApplyFailure, FailureLost, RollBackPayment,
         Applying, Thrown, TypeOK, IdleWorker, WorkerState
    <3> QED
      BY <3>1, <3>2, <3>3
  <2>5. SameInvoices
    <3>1. CASE CallerStep(p) /\ p \in Callers
      BY <3>1, CallerMoney DEF Remembered, SameInvoices
    <3>2. CASE SettlerStep(p)
      BY <3>2 DEF SettlerStep, WebhookArrives, SyncPaymentAttempt, Reconcile, VerifyPayment, SameInvoices
    <3>3. CASE ApplyStep(p) \/ Crash(p)
      BY <1>4, <3>3 DEF ApplyStep, Crash, ApplyPending, ApplyFailure, FailureLost, RollBackPayment,
         Settle, TypeOK, AttemptRow, SameInvoices
    <3> QED
      BY <1>4, <3>1, <3>2, <3>3
  <2> QED
    BY <2>0, <2>2, <2>3, <2>4, <2>5, SignupFrame
<1> QED
  BY <1>1, <1>2, <1>3, <1>4

LEMMA MoverSignup ==
  ASSUME Inv, Signup, NEW m \in Movers, MoverStep(m) PROVE Signup'
<1> USE DEF Inv, Shape
<1>0. mover' = [mover EXCEPT ![m] = IdleMover] =>
        \A n \in Movers : mover'[n].pc = "renewing" => mover[n].pc = "renewing"
  BY DEF TypeOK, IdleMover
<1>1. CASE ApplyTransition(m)
  <2>1. /\ sub.status = mover[m].seen /\ sub'.status = mover[m].target
        /\ worker' = worker /\ attempt' = attempt
        /\ invoice' = VoidWithExpiry(mover[m].target)
        /\ mover[m].pc = "moving"
        /\ \A n \in Movers : mover'[n].pc = "renewing" => mover[n].pc = "renewing"
    BY <1>0, <1>1 DEF ApplyTransition, TypeOK, SubscriptionRow
  <2>2. CASE mover[m].target = "EXPIRED"
    <3>1. sub.status = "INCOMPLETE" /\ sub'.status = "EXPIRED"
      BY <2>1, <2>2 DEF MoverOK
    <3>2. \A i \in Invoices : invoice'[i].status # "OPEN" /\ invoice'[i].amountPaid = 0
      BY <2>1, <2>2, <3>1 DEF VoidWithExpiry, Signup, SignupOK, TypeOK, InvoiceRow
    <3> QED
      BY <2>1, <3>1, <3>2 DEF Signup, SignupOK, ExpiredOwesNothing
  <2>3. CASE mover[m].target # "EXPIRED"
    BY <2>1, <2>3 DEF MoverOK, Signup, SignupOK, ExpiredOwesNothing
  <2> QED
    BY <2>2, <2>3
<1>2. CASE CommitVoid(m)
  <2>1. /\ UNCHANGED <<sub, worker, attempt>>
        /\ \A i \in Invoices : /\ invoice'[i].late = invoice[i].late
                               /\ invoice'[i].amountPaid = invoice[i].amountPaid
                               /\ invoice'[i].status = "OPEN" => invoice[i].status = "OPEN"
        /\ \A p \in Workers : worker[p].pc = "posting" => attempt[worker[p].att].inv \in Invoices
    BY <1>2 DEF CommitVoid, TypeOK, InvoiceRow, WorkerOK, AttemptOK, Busy
  <2> QED
    BY <1>0, <1>2, <2>1 DEF CommitVoid, Signup, SignupOK, ExpiredOwesNothing
<1>3. CASE RenewalStep(m)
  <2>1. CASE mover[m].pc = "renewing"
    <3>1. /\ worker' = worker
          /\ sub.status \notin {"INCOMPLETE", "EXPIRED"}
          /\ sub'.status \notin {"INCOMPLETE", "EXPIRED"}
      BY <1>3, <2>1, RenewalEffect DEF Signup, SignupOK
    <3> QED
      BY <3>1 DEF Signup, SignupOK, ExpiredOwesNothing
  <2>2. CASE mover[m].pc # "renewing"
    <3>1. UNCHANGED <<sub, invoice, worker, attempt>>
      BY <1>3, <2>2, RenewalEffect
    <3>2. \A n \in Movers : mover'[n].pc = "renewing" =>
            mover[n].pc = "renewing" \/ sub.status \notin {"INCOMPLETE", "EXPIRED"}
      BY <1>3, RenewalEffect DEF TypeOK, IdleMover
    <3> QED
      BY <3>1, <3>2 DEF Signup, SignupOK, ExpiredOwesNothing
  <2> QED
    BY <2>1, <2>2
<1>4. CASE ~(ApplyTransition(m) \/ CommitVoid(m) \/ RenewalStep(m))
  <2>1. \A n \in Movers : mover'[n].pc = "renewing" => mover[n].pc = "renewing"
    <3>1. ASSUME NEW target, Decide(m, target) PROVE <2>1
      BY <3>1 DEF Decide, TypeOK
    <3>2. CASE TransitionLost(m)
      BY <1>0, <3>2 DEF TransitionLost
    <3>3. ASSUME NEW i \in Invoices, BeginVoid(m, i) PROVE <2>1
      BY <3>3 DEF BeginVoid, TypeOK, IdleMover
    <3> QED
      BY <1>4, <3>1, <3>2, <3>3 DEF MoverStep, CancelSubscription, PauseSubscription,
         ResumeSubscription, ExpireGracePeriod, ExpireIncomplete
  <2> QED
    BY <1>4, <2>1, SignupFrame DEF SameInvoices, MoverStep, CancelSubscription, PauseSubscription, ResumeSubscription,
       ExpireGracePeriod, ExpireIncomplete, Decide, TransitionLost, BeginVoid
<1> QED
  BY <1>1, <1>2, <1>3, <1>4

LEMMA WorldSignup ==
  ASSUME Inv, Signup, WorldStep PROVE Signup'
<1>1. invoice' = invoice /\ worker' = worker /\ mover' = mover /\ sub'.status = sub.status
  BY DEF WorldStep, ChargeResolves, FiveMinutesPass, GraceElapses, ChangeFailureAction,
     Inv, Shape, TypeOK, SubscriptionRow
<1>2. SameInvoices
  BY DEF WorldStep, ChargeResolves, FiveMinutesPass, GraceElapses, ChangeFailureAction,
     Inv, Shape, TypeOK, AttemptRow, SameInvoices
<1> QED
  BY <1>1, <1>2, SignupFrame

\* A proration adds an invoice nothing was paid on: before the expiry the expiry
\* will void it, after the expiry it is a late one.
LEMMA ProrationSignup ==
  ASSUME Inv, Signup, NEW i \in Invoices, IssueProration(i) PROVE Signup'
<1> USE DEF Inv, Shape
<1>1. /\ UNCHANGED <<sub, attempt, worker, mover>>
      /\ \A j \in Invoices : /\ invoice[j].status # "NONE" => invoice'[j] = invoice[j]
                             /\ invoice'[j].amountPaid = invoice[j].amountPaid
                             /\ j # i => invoice'[j] = invoice[j]
      /\ sub.status = "EXPIRED" => invoice'[i].late
  BY ProrationEffect
<1>2. ExpiredOwesNothing'
  BY <1>1 DEF Signup, ExpiredOwesNothing
<1>3. \A p \in Workers : worker[p].pc = "posting" =>
        /\ attempt[worker[p].att].inv \in Invoices
        /\ Billed(invoice[attempt[worker[p].att].inv])
  BY DEF WorkerOK, AttemptOK, Busy
<1>4. SignupOK'
  BY <1>1, <1>3 DEF Signup, SignupOK, Billed
<1> QED
  BY <1>2, <1>4 DEF Signup

\* The first payment and expireIncompleteSubscriptions cannot both win: once the
\* sign-up has expired, no invoice issued before is open or has received money,
\* whatever plan and seat changes billed it meanwhile.
THEOREM ExpiryIsClean == Spec => []ExpiredOwesNothing
<1>1. Init => Inv /\ Signup
  <2>1. Init => Signup
    BY DEF Init, Signup, SignupOK, ExpiredOwesNothing, NewInvoice, IdleWorker, IdleMover
  <2> QED
    BY <2>1, InvHolds
<1>2. Inv /\ Signup /\ RecordedMoneyWasCollected /\ [Next]_vars => (Inv /\ Signup)'
  <2> SUFFICES ASSUME Inv, Signup, RecordedMoneyWasCollected, [Next]_vars PROVE Inv' /\ Signup'
    OBVIOUS
  <2>1. CASE UNCHANGED vars
    <3>1. sub' = sub /\ invoice' = invoice /\ worker' = worker /\ mover' = mover
      BY <2>1 DEF vars
    <3> QED
      BY <2>1, <3>1, InvKept, SignupFrame DEF SameInvoices, vars
  <2> QED
    BY <2>1, InvKept, WorkerSignup, MoverSignup, ProrationSignup, WorldSignup DEF Next, Workers
<1> QED
  BY <1>1, <1>2, BooksFollowTheProvider, PTL DEF Spec, Signup

-----------------------------------------------------------------------------
(* A grace period.                                                         *)

\* Nothing but the clock and the status itself touches a running grace period
\* (failInvoiceInTransaction ignores further failures, settings are not re-read).
THEOREM GraceIsUndisturbed == Spec => GraceRunsItsCourse
<1> DEFINE Kept == sub.status = "GRACE_PERIOD" /\ sub'.status = "GRACE_PERIOD" =>
                     /\ sub'.gracePolicy = sub.gracePolicy
                     /\ sub.graceOver => sub'.graceOver
<1>1. Inv /\ [Next]_vars => [Kept]_vars
  <2> SUFFICES ASSUME Inv, [Next]_vars PROVE sub' = sub \/ Kept
    OBVIOUS
  <2> USE DEF Inv, Shape
  <2>1. ASSUME NEW p \in Workers, CallerStep(p) \/ SettlerStep(p) \/ ApplyStep(p) \/ Crash(p)
        PROVE  sub' = sub \/ Kept
    BY <2>1, WorkerStepSub DEF Lapsed, Recovered
  <2>2. ASSUME NEW m \in Movers, MoverStep(m) PROVE sub' = sub \/ Kept
    <3>1. CASE ApplyTransition(m)
      BY <3>1 DEF ApplyTransition, MoverOK, TypeOK, SubscriptionRow
    <3>2. CASE RenewalStep(m)
      BY <3>2, RenewalEffect
    <3>3. CASE ~(ApplyTransition(m) \/ RenewalStep(m))
      BY <2>2, <3>3 DEF MoverStep, CancelSubscription, PauseSubscription, ResumeSubscription,
         ExpireGracePeriod, ExpireIncomplete, Decide, TransitionLost, BeginVoid, CommitVoid
    <3> QED
      BY <3>1, <3>2, <3>3
  <2>3. CASE WorldStep
    BY <2>3 DEF WorldStep, ChargeResolves, FiveMinutesPass, GraceElapses,
       ChangeFailureAction, TypeOK, SubscriptionRow
  <2>4. CASE UNCHANGED vars
    BY <2>4 DEF vars
  <2>5. ASSUME NEW i \in Invoices, IssueProration(i) PROVE sub' = sub
    BY <2>5 DEF IssueProration
  <2> QED
    BY <2>1, <2>2, <2>3, <2>4, <2>5 DEF Next, Workers
<1>2. Inv /\ RecordedMoneyWasCollected /\ [Next]_vars => Inv'
  BY InvKept
<1> QED
  BY <1>1, <1>2, InvHolds, BooksFollowTheProvider, PTL DEF Spec, GraceRunsItsCourse

-----------------------------------------------------------------------------
(* The contract: every step of Payments is a step of SubscriptionContract  *)
(* or leaves its stage and its collected charges alone.                    *)

Stutter == UNCHANGED <<StageOf[sub.status], Collected>>

LEMMA WorkerContract ==
  ASSUME Inv, NEW p \in Workers,
         (p \in Callers /\ CallerStep(p)) \/ SettlerStep(p) \/ ApplyStep(p) \/ Crash(p)
  PROVE  Contract!CNext \/ Stutter
<1> USE DEF Inv, Shape
<1>1. CASE CommitPayment(p)
  <2>1. worker[p].att \in Collected
    BY <1>1 DEF CommitPayment, WorkerOK, AnswerOK, Busy
  <2>2. Collected' = Collected
    BY <1>1 DEF CommitPayment, Collected
  <2>3. CASE Recovers(p)
    <3>1. sub.status \in RecoverableStatuses /\ sub'.status = "ACTIVE"
      BY <1>1, <2>3 DEF CommitPayment, CasFails, Recovers, Recovered
    <3>2. StageOf[sub.status] \in {"signup", "trial", "lapsed"} /\ StageOf[sub'.status] = "served"
      BY <3>1 DEF RecoverableStatuses, StageOf
    <3> QED
      BY <2>1, <2>2, <3>2 DEF Contract!CNext, Contract!Serve
  <2>4. CASE ~Recovers(p)
    BY <1>1, <2>2, <2>4 DEF CommitPayment, Recovered, Stutter
  <2> QED
    BY <2>3, <2>4
<1>2. CASE ProviderReceives(p)
  <2>1. PICK outcome \in ChargeState \ {"none"} : charge' = [charge EXCEPT ![worker[p].att] = outcome]
    BY <1>2 DEF ProviderReceives
  <2>2. worker[p].att \in Attempts /\ charge[worker[p].att] = "none" /\ sub' = sub
    BY <1>2 DEF ProviderReceives, WorkerOK, Busy
  <2>3. Collected' = IF outcome = "collected" THEN Collected \cup {worker[p].att} ELSE Collected
    BY <2>1, <2>2 DEF Collected, TypeOK
  <2> QED
    BY <2>2, <2>3 DEF Contract!CNext, Contract!Collect, Stutter
<1>3. CASE ~(CommitPayment(p) \/ ProviderReceives(p))
  <2>1. Collected' = Collected
    BY <1>3 DEF CallerStep, LoadInvoice, CreateAttempt, RefuseAttempt,
       ProviderAnswers, ProviderRefuses, ProviderTimesOut, CatchError, HandlePaymentFailure,
       SettlerStep, WebhookArrives, SyncPaymentAttempt, Reconcile, VerifyPayment, ApplyStep, Crash,
       BeginApply, ApplyPending, ApplyFailure, FailureLost, ReadInvoice, RollBackPayment, Collected
  <2>2. sub' = sub \/ sub' = Lapsed
    BY <1>3, WorkerStepSub
  <2>3. CASE sub' = sub
    BY <2>1, <2>3 DEF Stutter
  <2>4. CASE sub' # sub
    <3>1. sub.status \in {"ACTIVE", "TRIALING", "PAST_DUE"} /\ sub'.status = "GRACE_PERIOD"
      BY <2>2, <2>4 DEF Lapsed
    <3>2. StageOf[sub.status] \in {"trial", "served", "lapsed"} /\ StageOf[sub'.status] = "lapsed"
      BY <3>1 DEF StageOf
    <3> QED
      BY <2>1, <3>2 DEF Contract!CNext, Contract!Lapse, Stutter
  <2> QED
    BY <2>3, <2>4
<1> QED
  BY <1>1, <1>2, <1>3

LEMMA MoverContract ==
  ASSUME Inv, NEW m \in Movers, MoverStep(m) PROVE Contract!CNext \/ Stutter
<1> USE DEF Inv, Shape
<1>1. Collected' = Collected
  BY RenewalEffect DEF MoverStep, CancelSubscription, PauseSubscription, ResumeSubscription, ExpireGracePeriod,
     ExpireIncomplete, Decide, ApplyTransition, TransitionLost, BeginVoid, CommitVoid, Collected
<1>2. CASE ApplyTransition(m)
  <2>1. /\ sub'.status \in Transitions[sub.status]
        /\ sub.status \in Status
        /\ sub'.status \in {"CANCELED", "PAUSED", "UNPAID", "ACTIVE", "EXPIRED"}
        /\ sub'.status = "ACTIVE" => sub.status = "PAUSED"
        /\ sub'.status = "EXPIRED" => sub.status = "INCOMPLETE"
        /\ sub'.status = "UNPAID" => sub.status = "GRACE_PERIOD"
    BY <1>2 DEF ApplyTransition, MoverOK, TypeOK, SubscriptionRow
  <2>2. CASE sub'.status = "CANCELED" \/ sub'.status = "EXPIRED"
    <3>1. sub.status \notin TerminalStatuses
      BY <2>1 DEF TerminalStatuses, Transitions
    <3>2. StageOf[sub.status] # "ended" /\ StageOf[sub'.status] = "ended"
      BY <2>1, <2>2, <3>1 DEF StageOf, TerminalStatuses, Status
    <3> QED
      BY <1>1, <3>2 DEF Contract!CNext, Contract!End
  <2>3. CASE sub'.status = "PAUSED"
    <3>1. sub.status \in {"TRIALING", "ACTIVE", "PAST_DUE", "GRACE_PERIOD"}
      BY <2>1, <2>3 DEF Transitions, Status
    <3>2. StageOf[sub.status] \in {"trial", "served", "lapsed"} /\ StageOf[sub'.status] = "paused"
      BY <2>3, <3>1 DEF StageOf
    <3> QED
      BY <1>1, <3>2 DEF Contract!CNext, Contract!Pause
  <2>4. CASE sub'.status = "ACTIVE"
    BY <1>1, <2>1, <2>4 DEF StageOf, Contract!CNext, Contract!Resume
  <2>5. CASE sub'.status = "UNPAID"
    BY <1>1, <2>1, <2>5 DEF StageOf, Stutter
  <2> QED
    BY <2>1, <2>2, <2>3, <2>4, <2>5
<1>3. CASE RenewalStep(m)
  <2>1. CASE sub' = sub
    BY <1>1, <2>1 DEF Stutter
  <2>2. CASE sub.status = "TRIALING" /\ sub'.status = "PAST_DUE"
    BY <1>1, <2>2 DEF StageOf, Contract!CNext, Contract!Lapse
  <2>3. CASE /\ mover[m].pc = "renewing" /\ sub.status = mover[m].seen
             /\ sub'.status = "CANCELED"
    <3>1. StageOf[sub.status] # "ended" /\ StageOf[sub'.status] = "ended"
      BY <2>3 DEF MoverOK, StageOf
    <3> QED
      BY <1>1, <3>1 DEF Contract!CNext, Contract!End
  <2> QED
    BY <1>3, <2>1, <2>2, <2>3, RenewalEffect
<1>4. CASE ~(ApplyTransition(m) \/ RenewalStep(m))
  <2>1. sub' = sub
    BY <1>4 DEF MoverStep, CancelSubscription, PauseSubscription, ResumeSubscription,
       ExpireGracePeriod, ExpireIncomplete, Decide, TransitionLost, BeginVoid, CommitVoid
  <2> QED
    BY <1>1, <2>1 DEF Stutter
<1> QED
  BY <1>2, <1>3, <1>4

LEMMA WorldContract ==
  ASSUME Inv, WorldStep PROVE Contract!CNext \/ Stutter
<1> USE DEF Inv, Shape
<1>1. ASSUME NEW a \in Attempts, ChargeResolves(a) PROVE Contract!CNext \/ Stutter
  <2>1. PICK outcome \in ChargeState \ {"none", "open"} : charge' = [charge EXCEPT ![a] = outcome]
    BY <1>1 DEF ChargeResolves
  <2>2. Collected' = IF outcome = "collected" THEN Collected \cup {a} ELSE Collected
    BY <1>1, <2>1 DEF ChargeResolves, Collected, TypeOK
  <2> QED
    BY <1>1, <2>2 DEF ChargeResolves, Contract!CNext, Contract!Collect, Stutter
<1>2. CASE GraceElapses \/ ChangeFailureAction \/ \E a \in Attempts : FiveMinutesPass(a)
  <2>1. sub'.status = sub.status /\ charge' = charge
    BY <1>2 DEF GraceElapses, ChangeFailureAction, FiveMinutesPass, TypeOK, SubscriptionRow
  <2> QED
    BY <2>1 DEF Stutter, Collected
<1> QED
  BY <1>1, <1>2 DEF WorldStep

\* Payments implements SubscriptionContract: nobody is served on money that was
\* not collected, and nobody who ended is served again.
THEOREM PaymentsKeepTheContract == Spec => ContractKept
<1>1. Init => Contract!CInit
  <2>1. Init => sub.status \in {"INCOMPLETE", "TRIALING", "ACTIVE"}
    BY DEF Init
  <2>2. Init => Collected = {}
    BY DEF Init, Collected
  <2> QED
    BY <2>1, <2>2 DEF Contract!CInit, StageOf
<1>2. Inv /\ [Next]_vars => [Contract!CNext]_(Contract!cvars)
  <2> SUFFICES ASSUME Inv, [Next]_vars PROVE Contract!CNext \/ Stutter
    BY DEF Stutter, Contract!cvars
  <2>1. CASE UNCHANGED vars
    BY <2>1 DEF vars, Stutter, Collected
  <2>2. ASSUME NEW i \in Invoices, IssueProration(i) PROVE Stutter
    BY <2>2 DEF IssueProration, Stutter, Collected
  <2> QED
    BY <2>1, <2>2, WorkerContract, MoverContract, WorldContract DEF Next, Workers
<1>3. Inv /\ RecordedMoneyWasCollected /\ [Next]_vars => Inv'
  BY InvKept
<1> QED
  BY <1>1, <1>2, <1>3, InvHolds, BooksFollowTheProvider, PTL DEF Spec, ContractKept, Contract!CSpec

=============================================================================
