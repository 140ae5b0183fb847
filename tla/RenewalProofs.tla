--------------------------- MODULE RenewalProofs ---------------------------
(***************************************************************************)
(* The safety of Renewal for any number of sweeps, requests and payments   *)
(* and any interval.  What carries it: the advisory lock has one holder,   *)
(* and until a recovery from UNPAID moves the period nobody but the holder *)
(* does, so what the holder read is still what the row says.  A second     *)
(* invariant, on trials, rests on nothing ever becoming TRIALING again.    *)
(***************************************************************************)
EXTENDS Renewal, TLAPS

LockHeldOnce ==
  \A v, w \in Renewers :
    worker[v].pc = "renewing" /\ worker[w].pc = "renewing" => v = w

LockedRowIsFresh ==
  ~rebased => \A w \in Renewers : worker[w].pc = "renewing" => worker[w].seen.end = sub.end

SweepIsDue ==
  \A w \in Sweeps : /\ worker[w].pc = "selected" => worker[w].at <= now
                    /\ worker[w].pc = "renewing" => worker[w].seen.end <= now

IInv ==
  /\ TypeOK /\ LockHeldOnce /\ LockedRowIsFresh /\ SweepIsDue
  /\ PeriodsAreBilledOnce

-----------------------------------------------------------------------------
(* What the rows are made of *)

LEMMA Bills ==
  ASSUME NEW status \in {"OPEN", "PAID"}, NEW start \in Nat, NEW end \in Nat
  PROVE  /\ Bill(status, start, end) \in InvoiceRow
         /\ Bill(status, start, end).start = start
         /\ Bill(status, start, end).end = end
  BY DEF Bill, NoInvoice, InvoiceRow

LEMMA IdleTypes ==
  /\ NoInvoice \in InvoiceRow
  /\ IdleWorker \in [pc : {"idle"}, at : Nat, seen : Reading, inv : 0..MaxInvoices]
  /\ IdleSettler \in [pc : {"idle"}, seen : Status, inv : 0..MaxInvoices, paidAt : Nat]
  BY RenewalAssumption
  DEF NoInvoice, InvoiceRow, IdleWorker, IdleSettler, Reading, Unread, Status

\* A worker that finishes or gets a new place in the code is still a worker, and
\* whatever it does it is not a second holder of the lock.
LEMMA Leaving ==
  ASSUME IInv, NEW w \in Renewers, now' = now, sub'.end = sub.end, rebased' = rebased,
         NEW place \in [pc : {"idle", "collecting", "charging", "done"}, at : Nat,
                        seen : Reading, inv : 0..MaxInvoices],
         worker' = [worker EXCEPT ![w] = place]
  PROVE  LockHeldOnce' /\ LockedRowIsFresh' /\ SweepIsDue'
<1>1. \A v \in Renewers : worker'[v].pc \in {"renewing", "selected"} =>
        worker'[v] = worker[v]
  BY DEF IInv, TypeOK
<1> QED
  BY <1>1 DEF IInv, LockHeldOnce, LockedRowIsFresh, SweepIsDue, Renewers

LEMMA Finishing ==
  ASSUME TypeOK, NEW w \in Renewers, Finish(w)
  PROVE  \E place \in [pc : {"idle", "collecting", "charging", "done"}, at : Nat,
                       seen : Reading, inv : 0..MaxInvoices] :
           worker' = [worker EXCEPT ![w] = place]
<1>1. CASE w \in Sweeps
  BY <1>1, IdleTypes DEF Finish
<1>2. CASE w \notin Sweeps
  <2>1. [IdleWorker EXCEPT !.pc = "done"] \in
          [pc : {"idle", "collecting", "charging", "done"}, at : Nat,
           seen : Reading, inv : 0..MaxInvoices]
    BY IdleTypes
  <2> QED
    BY <1>2, <2>1 DEF Finish
<1> QED
  BY <1>1, <1>2

\* Nothing was issued and no window moved.
SameWindows ==
  /\ sub'.start = sub.start /\ sub'.end = sub.end /\ issued' = issued
  /\ \A i \in Invoices : invoice'[i].start = invoice[i].start /\ invoice'[i].end = invoice[i].end

LEMMA WindowsKept ==
  ASSUME IInv, SameWindows, rebased' = rebased
  PROVE  PeriodsAreBilledOnce'
<1>1. issued \in Nat /\ issued <= MaxInvoices
  BY RenewalAssumption DEF IInv, TypeOK
<1>2. \A i \in 2..issued : i \in Invoices /\ i - 1 \in Invoices
  BY <1>1, RenewalAssumption DEF Invoices
<1>3. issued > 0 => issued \in Invoices
  BY <1>1, RenewalAssumption DEF Invoices
<1> QED
  BY <1>2, <1>3 DEF IInv, PeriodsAreBilledOnce, SameWindows

-----------------------------------------------------------------------------
(* The steps *)

LEMMA InitInv == Init => IInv
<1> SUFFICES ASSUME Init PROVE IInv
  OBVIOUS
<1>1. TypeOK
  <2>1. Bill("PAID", 0, Interval) \in InvoiceRow
    BY Bills, RenewalAssumption
  <2>2. invoice \in [Invoices -> InvoiceRow]
    BY <2>1, IdleTypes DEF Init
  <2>3. worker \in [Renewers -> [pc : {"idle", "selected", "renewing", "collecting",
                                       "charging", "done"},
                                 at : Nat, seen : Reading, inv : 0..MaxInvoices]]
    BY IdleTypes DEF Init
  <2>4. settler \in [Settlers -> [pc : {"idle", "posting"}, seen : Status,
                                  inv : 0..MaxInvoices, paidAt : Nat]]
    BY IdleTypes DEF Init
  <2>5. sub \in SubscriptionRow
    <3>1. {"TRIALING", "ACTIVE"} \subseteq Status /\ Interval \in Nat /\ TrialLength \in Nat
      BY RenewalAssumption DEF Status
    <3>2. \A status \in Status, end \in Nat :
            [status |-> status, start |-> 0, end |-> end, cancel |-> FALSE] \in SubscriptionRow
      BY DEF SubscriptionRow
    <3> QED
      BY <3>1, <3>2 DEF Init
  <2>6. issued \in 0..MaxInvoices /\ crashes \in 0..MaxCrashes
    BY RenewalAssumption DEF Init
  <2> QED
    BY <2>2, <2>3, <2>4, <2>5, <2>6 DEF Init, TypeOK
<1>2. \A w \in Renewers : worker[w].pc = "idle"
  BY DEF Init, IdleWorker
<1>3. LockHeldOnce /\ LockedRowIsFresh /\ SweepIsDue
  BY <1>2 DEF LockHeldOnce, LockedRowIsFresh, SweepIsDue, Renewers
<1>4. PeriodsAreBilledOnce
  <2>1. CASE issued = 0
    BY <2>1 DEF PeriodsAreBilledOnce
  <2>2. CASE issued = 1
    <3>1. 1 \in Invoices
      BY RenewalAssumption DEF Invoices
    <3>2. /\ invoice[1] = Bill("PAID", 0, Interval)
          /\ sub.start = 0 /\ sub.end = Interval
      BY <2>2, <3>1 DEF Init
    <3> QED
      BY <2>2, <3>2, Bills, RenewalAssumption DEF PeriodsAreBilledOnce
  <2> QED
    BY <2>1, <2>2 DEF Init
<1> QED
  BY <1>1, <1>3, <1>4 DEF IInv

\* Selecting, taking the lock and giving up touch only the worker.
LEMMA BeginningInv ==
  ASSUME IInv, NEW w \in Renewers,
         Select(w) \/ BeginRenewal(w) \/ SkipRenewal(w)
  PROVE  IInv'
<1> USE DEF IInv
<1>0. UNCHANGED <<now, sub, invoice, issued, settler, crashes, rebased>>
  BY DEF Select, BeginRenewal, SkipRenewal
<1>1. PeriodsAreBilledOnce'
  BY <1>0 DEF PeriodsAreBilledOnce
<1>2. CASE Select(w)
  <2> DEFINE place == [IdleWorker EXCEPT !.pc = "selected", !.at = now]
  <2>1. place \in [pc : {"selected"}, at : Nat, seen : Reading, inv : 0..MaxInvoices]
    BY IdleTypes DEF TypeOK
  <2>2. worker' = [worker EXCEPT ![w] = place] /\ place.at = now /\ place.pc = "selected"
    BY <1>2, <2>1 DEF Select, IdleWorker
  <2> HIDE DEF place
  <2>3. TypeOK'
    BY <1>0, <2>1, <2>2 DEF TypeOK
  <2>4. LockHeldOnce' /\ LockedRowIsFresh' /\ SweepIsDue'
    BY <1>0, <2>1, <2>2 DEF TypeOK, LockHeldOnce, LockedRowIsFresh, SweepIsDue, Renewers
  <2> QED
    BY <1>1, <2>3, <2>4
<1>3. CASE BeginRenewal(w)
  <2> DEFINE reading == [status |-> sub.status, end |-> sub.end, cancel |-> sub.cancel]
             place == [IdleWorker EXCEPT !.pc = "renewing", !.seen = reading]
  <2>1. reading \in Reading
    BY DEF TypeOK, SubscriptionRow, Reading
  <2>2. place \in [pc : {"renewing"}, at : Nat, seen : Reading, inv : 0..MaxInvoices]
    BY <2>1, IdleTypes
  <2>3. /\ worker' = [worker EXCEPT ![w] = place] /\ place.seen.end = sub.end
        /\ place.pc = "renewing"
    BY <1>3 DEF BeginRenewal, IdleWorker
  <2> HIDE DEF place
  <2>4. TypeOK'
    BY <1>0, <2>2, <2>3 DEF TypeOK
  <2>5. \A v \in Renewers : v # w => worker'[v] = worker[v] /\ worker[v].pc # "renewing"
    BY <1>3, <2>3 DEF BeginRenewal, LockFree, TypeOK
  <2>6. worker'[w] = place
    BY <2>3 DEF TypeOK
  <2>7. LockHeldOnce' /\ LockedRowIsFresh'
    BY <1>0, <2>3, <2>5, <2>6 DEF LockHeldOnce, LockedRowIsFresh
  <2>8. SweepIsDue'
    <3>1. w \in Sweeps => sub.end <= worker[w].at /\ worker[w].at <= now
      BY <1>3 DEF BeginRenewal, Starting, CanRenew, IsPeriodDue, SweepIsDue
    <3>2. w \in Sweeps => sub.end <= now
      BY <3>1 DEF TypeOK, SubscriptionRow
    <3> QED
      BY <1>0, <2>3, <2>5, <2>6, <3>2 DEF SweepIsDue, Renewers
  <2> QED
    BY <1>1, <2>4, <2>7, <2>8
<1>4. CASE SkipRenewal(w)
  <2>1. worker' = [worker EXCEPT ![w] = IdleWorker]
    BY <1>4 DEF SkipRenewal
  <2>2. TypeOK'
    BY <1>0, <2>1, IdleTypes DEF TypeOK
  <2>3. LockHeldOnce' /\ LockedRowIsFresh' /\ SweepIsDue'
    BY <1>0, <2>1, IdleTypes, Leaving
  <2> QED
    BY <1>1, <2>2, <2>3
<1> QED
  BY <1>2, <1>3, <1>4

\* A new period follows the one the lock's holder read, which is the row's.
LEMMA OpenPeriodInv ==
  ASSUME IInv, NEW w \in Renewers, NEW collectable \in BOOLEAN,
         NEW status \in {"OPEN", "PAID"}, OpenPeriod(w, collectable, status)
  PROVE  IInv'
<1> USE DEF IInv
<1> DEFINE seen == worker[w].seen
           end == seen.end + Interval
           lapses == seen.status = "TRIALING" /\ ~collectable
           kept == [Unread EXCEPT !.status = seen.status]
           place == [IdleWorker EXCEPT !.pc = "collecting", !.inv = issued + 1, !.seen = kept]
<1>0. /\ UNCHANGED <<now, settler, crashes, rebased>>
      /\ worker[w].pc = "renewing"
      /\ issued < MaxInvoices /\ issued' = issued + 1
      /\ invoice' = [invoice EXCEPT ![issued + 1] = Bill(status, seen.end, end)]
      /\ sub' = [sub EXCEPT !.start = seen.end, !.end = end,
                            !.status = IF lapses THEN "PAST_DUE" ELSE @]
      /\ worker' = [worker EXCEPT ![w] = place]
  BY DEF OpenPeriod, Issue
<1>1. seen \in Reading /\ seen.end \in Nat /\ seen.status \in Status /\ end \in Nat
  BY RenewalAssumption DEF TypeOK, Reading
<1>2. place \in [pc : {"collecting"}, at : Nat, seen : Reading, inv : 0..MaxInvoices]
  <2>1. issued + 1 \in 0..MaxInvoices
    BY <1>0, RenewalAssumption DEF TypeOK
  <2>2. kept \in Reading
    BY <1>1 DEF Unread, Reading
  <2> HIDE DEF kept
  <2> QED
    BY <2>1, <2>2, IdleTypes
<1>3. issued + 1 \in Invoices /\ issued \in Nat
  BY <1>0, RenewalAssumption DEF TypeOK, Invoices
<1>4. /\ sub' \in SubscriptionRow /\ sub'.start = seen.end /\ sub'.end = end
  BY <1>0, <1>1 DEF TypeOK, SubscriptionRow, Status
<1> HIDE DEF place, end
<1>5. TypeOK'
  <2>1. Bill(status, seen.end, end) \in InvoiceRow
    BY <1>1, Bills
  <2>2. invoice' \in [Invoices -> InvoiceRow]
    BY <1>0, <2>1 DEF TypeOK
  <2>3. worker' \in [Renewers -> [pc : {"idle", "selected", "renewing", "collecting",
                                        "charging", "done"},
                                  at : Nat, seen : Reading, inv : 0..MaxInvoices]]
    BY <1>0, <1>2 DEF TypeOK
  <2>4. issued' \in 0..MaxInvoices
    BY <1>0, RenewalAssumption DEF TypeOK
  <2> QED
    BY <1>0, <1>4, <2>2, <2>3, <2>4 DEF TypeOK
<1>6. \A v \in Renewers : v # w => worker'[v] = worker[v] /\ worker[v].pc # "renewing"
  BY <1>0 DEF TypeOK, LockHeldOnce
<1>7. worker'[w].pc = "collecting"
  BY <1>0, <1>2 DEF TypeOK
<1>8. LockHeldOnce' /\ LockedRowIsFresh' /\ SweepIsDue'
  BY <1>0, <1>6, <1>7 DEF LockHeldOnce, LockedRowIsFresh, SweepIsDue, Renewers
<1>9. PeriodsAreBilledOnce'
  <2> SUFFICES ASSUME ~rebased
               PROVE  /\ \A i \in 2..issued' : invoice'[i].start = invoice'[i - 1].end
                      /\ invoice'[issued'].start = sub'.start
                      /\ invoice'[issued'].end = sub'.end
    BY <1>0 DEF PeriodsAreBilledOnce
  <2>1. seen.end = sub.end
    BY <1>0 DEF LockedRowIsFresh
  <2>2. /\ invoice'[issued + 1].start = seen.end
        /\ invoice'[issued + 1].end = end
    BY <1>0, <1>1, <1>3, Bills DEF TypeOK
  <2>3. \A i \in 1..issued : i \in Invoices /\ invoice'[i] = invoice[i]
    <3>1. issued < MaxInvoices /\ MaxInvoices \in Nat
      BY <1>0, RenewalAssumption
    <3>2. \A i \in 1..issued : i \in Invoices /\ i # issued + 1
      BY <1>3, <3>1 DEF Invoices
    <3> QED
      BY <1>0, <3>2 DEF TypeOK
  <2>4. \A i \in 2..issued : invoice'[i].start = invoice'[i - 1].end
    BY <1>3, <2>3 DEF PeriodsAreBilledOnce
  <2>5. issued >= 1 => invoice'[issued].end = sub.end
    BY <1>3, <2>3 DEF PeriodsAreBilledOnce
  <2>6. \A i \in 2..(issued + 1) : invoice'[i].start = invoice'[i - 1].end
    BY <1>3, <2>1, <2>2, <2>4, <2>5
  <2> QED
    BY <1>0, <1>4, <2>2, <2>6
<1> QED
  BY <1>5, <1>8, <1>9

\* The rest of a worker's steps leave the windows alone.
LEMMA LeavingInv ==
  ASSUME IInv, NEW w \in Renewers,
         \/ CancelAtPeriodEnd(w) \/ RenewalLost(w) \/ StartCharge(w)
         \/ Collect(w) \/ CollectFails(w) \/ Crash(w)
  PROVE  IInv'
<1> USE DEF IInv
<1>1. UNCHANGED <<now, issued, settler, rebased>>
  BY DEF CancelAtPeriodEnd, RenewalLost, StartCharge, Collect, CollectFails, Crash
<1>2. crashes' \in 0..MaxCrashes
  <2>1. CASE Crash(w)
    BY <2>1, RenewalAssumption DEF Crash, TypeOK
  <2>2. CASE UNCHANGED crashes
    BY <2>2 DEF TypeOK
  <2> QED
    BY <2>1, <2>2 DEF CancelAtPeriodEnd, RenewalLost, StartCharge, Collect, CollectFails
<1>3. sub' \in SubscriptionRow /\ sub'.start = sub.start /\ sub'.end = sub.end
  <2>1. UNCHANGED sub \/ \E s \in {"CANCELED", "PAST_DUE"} : sub' = [sub EXCEPT !.status = s]
    BY DEF CancelAtPeriodEnd, RenewalLost, StartCharge, Collect, CollectFails, Crash
  <2> QED
    BY <2>1 DEF TypeOK, SubscriptionRow, Status
<1>4. /\ invoice' \in [Invoices -> InvoiceRow]
      /\ \A i \in Invoices : invoice'[i].start = invoice[i].start /\ invoice'[i].end = invoice[i].end
  <2>1. CASE StartCharge(w)
    <3> DEFINE n == worker[w].inv
    <3>1. invoice' = [invoice EXCEPT ![n] = [invoice[n] EXCEPT !.charge = "pending"]]
      BY <2>1 DEF StartCharge
    <3>2. \A i \in Invoices : LET sent == [invoice[i] EXCEPT !.charge = "pending"]
                              IN  /\ sent \in InvoiceRow
                                  /\ sent.start = invoice[i].start /\ sent.end = invoice[i].end
      BY DEF TypeOK, InvoiceRow
    <3> HIDE DEF n
    <3> QED
      BY <3>1, <3>2 DEF TypeOK
  <2>2. CASE UNCHANGED invoice
    BY <2>2 DEF TypeOK
  <2> QED
    BY <2>1, <2>2 DEF CancelAtPeriodEnd, RenewalLost, Collect, CollectFails, Crash
<1>5. \E place \in [pc : {"idle", "collecting", "charging", "done"}, at : Nat,
                    seen : Reading, inv : 0..MaxInvoices] :
        worker' = [worker EXCEPT ![w] = place]
  <2>1. CASE StartCharge(w)
    <3>1. [worker[w] EXCEPT !.pc = "charging"] \in
            [pc : {"idle", "collecting", "charging", "done"}, at : Nat,
             seen : Reading, inv : 0..MaxInvoices]
      BY DEF TypeOK
    <3>2. worker' = [worker EXCEPT ![w] = [worker[w] EXCEPT !.pc = "charging"]]
      BY <2>1 DEF StartCharge
    <3> QED
      BY <3>1, <3>2
  <2>2. CASE Finish(w)
    BY <2>2, Finishing
  <2> QED
    BY <2>1, <2>2 DEF CancelAtPeriodEnd, RenewalLost, Collect, CollectFails, Crash
<1>6. TypeOK'
  BY <1>1, <1>2, <1>3, <1>4, <1>5 DEF TypeOK
<1>7. LockHeldOnce' /\ LockedRowIsFresh' /\ SweepIsDue'
  BY <1>1, <1>3, <1>5, Leaving
<1>8. PeriodsAreBilledOnce'
  BY <1>1, <1>3, <1>4, WindowsKept DEF SameWindows
<1> QED
  BY <1>6, <1>7, <1>8

\* What merchants, customers and the grace sweep do to the row.
ByPeople ==
  \/ ExpireGracePeriod \/ PauseSubscription \/ ResumeFromPause \/ CancelImmediately
  \/ ScheduleCancel \/ RevokeCancel

LEMMA PeopleKeepPeriods ==
  ASSUME TypeOK, ByPeople
  PROVE  /\ sub' \in SubscriptionRow /\ sub'.start = sub.start /\ sub'.end = sub.end
         /\ UNCHANGED <<now, invoice, issued, worker, settler, crashes, rebased>>
<1>1. {"PAUSED", "ACTIVE", "CANCELED"} \subseteq Status
  BY DEF Status
<1>2. \A action \in FailureAction : StatusForFailureAction[action] \in Status
  BY DEF FailureAction, StatusForFailureAction, Status
<1>3. CASE ExpireGracePeriod \/ PauseSubscription \/ ResumeFromPause
  <2>1. PICK to \in Status : /\ sub' = [sub EXCEPT !.status = to]
                             /\ UNCHANGED <<now, invoice, issued, worker, settler, crashes, rebased>>
    BY <1>1, <1>2, <1>3
    DEF ExpireGracePeriod, PauseSubscription, ResumeFromPause, SetStatus
  <2> QED
    BY <2>1 DEF TypeOK, SubscriptionRow
<1>4. CASE CancelImmediately
  <2>1. \A row \in SubscriptionRow :
          LET ended == [row EXCEPT !.status = "CANCELED", !.cancel = FALSE]
          IN  ended \in SubscriptionRow /\ ended.start = row.start /\ ended.end = row.end
    BY <1>1 DEF SubscriptionRow
  <2> QED
    BY <1>4, <2>1 DEF CancelImmediately, TypeOK
<1>5. CASE ScheduleCancel \/ RevokeCancel
  BY <1>5 DEF ScheduleCancel, RevokeCancel, TypeOK, SubscriptionRow
<1> QED
  BY <1>3, <1>4, <1>5 DEF ByPeople

\* Payments and people who do not move the period: the workers do not notice.
LEMMA ElsewhereInv ==
  ASSUME IInv,
         \/ \E i \in Invoices : Retry(i) \/ Collected(i) \/ Declined(i)
         \/ ByPeople \/ Tick
         \/ \E s \in Settlers : (\E i \in Invoices : BeginSettle(s, i)) \/ SettleLost(s)
  PROVE  IInv'
<1> USE DEF IInv
<1>1. UNCHANGED <<issued, worker, crashes, rebased>>
  BY PeopleKeepPeriods DEF Retry, Collected, Declined, Tick, BeginSettle, SettleLost
<1>2. now' \in Nat /\ now <= now'
  <2>1. CASE UNCHANGED now
    BY <2>1 DEF TypeOK
  <2>2. CASE Tick
    BY <2>2 DEF Tick, TypeOK
  <2> QED
    BY <2>1, <2>2, PeopleKeepPeriods DEF Retry, Collected, Declined, BeginSettle, SettleLost
<1>3. sub' \in SubscriptionRow /\ sub'.start = sub.start /\ sub'.end = sub.end
  <2>1. CASE UNCHANGED sub
    BY <2>1 DEF TypeOK
  <2>2. CASE ByPeople
    BY <2>2, PeopleKeepPeriods
  <2>3. CASE \E i \in Invoices : Declined(i)
    <3>1. UNCHANGED sub \/ sub' = [sub EXCEPT !.status = "GRACE_PERIOD"]
      BY <2>3 DEF Declined
    <3> QED
      BY <2>1, <3>1 DEF TypeOK, SubscriptionRow, Status
  <2> QED
    BY <2>1, <2>2, <2>3 DEF Retry, Collected, Tick, BeginSettle, SettleLost
<1>4. /\ invoice' \in [Invoices -> InvoiceRow]
      /\ \A i \in Invoices : invoice'[i].start = invoice[i].start /\ invoice'[i].end = invoice[i].end
  <2>1. CASE UNCHANGED invoice
    BY <2>1 DEF TypeOK
  <2>2. CASE \E i \in Invoices, c \in {"none", "pending"} :
               invoice' = [invoice EXCEPT ![i].charge = c]
    BY <2>2 DEF TypeOK, InvoiceRow
  <2>3. CASE \E i \in Invoices :
               invoice' = [invoice EXCEPT ![i] = [@ EXCEPT !.charge = "collected", !.paidAt = now]]
    <3>1. \A i \in Invoices : LET paid == [invoice[i] EXCEPT !.charge = "collected", !.paidAt = now]
                              IN  /\ paid \in InvoiceRow
                                  /\ paid.start = invoice[i].start /\ paid.end = invoice[i].end
      <4>1. \A row \in InvoiceRow, at \in Nat :
              LET paid == [row EXCEPT !.charge = "collected", !.paidAt = at]
              IN  paid \in InvoiceRow /\ paid.start = row.start /\ paid.end = row.end
        BY DEF InvoiceRow
      <4> QED
        BY <4>1 DEF TypeOK
    <3> QED
      BY <2>3, <3>1 DEF TypeOK
  <2> QED
    BY <2>1, <2>2, <2>3, PeopleKeepPeriods
    DEF Retry, Collected, Declined, Tick, BeginSettle, SettleLost
<1> DEFINE Settler == [pc : {"idle", "posting"}, seen : Status,
                       inv : 0..MaxInvoices, paidAt : Nat]
<1>5. settler' \in [Settlers -> Settler]
  <2>0. settler \in [Settlers -> Settler]
    BY DEF TypeOK
  <2> HIDE DEF Settler
  <2>1. CASE UNCHANGED settler
    BY <2>0, <2>1
  <2>2. ASSUME NEW s \in Settlers, SettleLost(s) PROVE settler' \in [Settlers -> Settler]
    <3>1. IdleSettler \in Settler
      BY IdleTypes DEF Settler
    <3> QED
      BY <2>0, <2>2, <3>1 DEF SettleLost
  <2>3. ASSUME NEW s \in Settlers, NEW i \in Invoices, BeginSettle(s, i) PROVE settler' \in [Settlers -> Settler]
    <3>1. i \in 0..MaxInvoices /\ sub.status \in Status /\ invoice[i].paidAt \in Nat
      BY RenewalAssumption DEF Invoices, TypeOK, SubscriptionRow, InvoiceRow
    <3>2. [pc |-> "posting", seen |-> sub.status, inv |-> i, paidAt |-> invoice[i].paidAt]
            \in Settler
      BY <3>1 DEF Settler
    <3> QED
      BY <2>0, <2>3, <3>2 DEF BeginSettle
  <2> QED
    BY <2>1, <2>2, <2>3, PeopleKeepPeriods DEF Retry, Collected, Declined, Tick
<1>6. TypeOK'
  BY <1>1, <1>2, <1>3, <1>4, <1>5 DEF TypeOK
<1> HIDE DEF Settler
<1>7. LockHeldOnce' /\ LockedRowIsFresh'
  BY <1>1, <1>3 DEF LockHeldOnce, LockedRowIsFresh
<1>8. SweepIsDue'
  <2> SUFFICES ASSUME NEW w \in Sweeps
               PROVE  /\ worker[w].pc = "selected" => worker[w].at <= now'
                      /\ worker[w].pc = "renewing" => worker[w].seen.end <= now'
    BY <1>1 DEF SweepIsDue
  <2>1. worker[w].at \in Nat /\ worker[w].seen.end \in Nat /\ now \in Nat
    BY DEF TypeOK, Renewers, Reading
  <2> QED
    BY <1>2, <2>1 DEF SweepIsDue
<1>9. PeriodsAreBilledOnce'
  BY <1>1, <1>3, <1>4, WindowsKept DEF SameWindows
<1> QED
  BY <1>6, <1>7, <1>8, <1>9

\* A payment keeps the period unless it recovers from UNPAID, and then says so.
LEMMA SettleInv ==
  ASSUME IInv, NEW s \in Settlers, Settle(s) PROVE IInv'
<1> USE DEF IInv
<1> DEFINE seen == settler[s].seen
           i == settler[s].inv
<1>1. UNCHANGED <<now, issued, worker, crashes>>
      /\ rebased' = (rebased \/ seen = "UNPAID")
      /\ invoice' = [invoice EXCEPT ![i] = Bill("PAID", @.start, @.end)]
      /\ settler' = [settler EXCEPT ![s] = IdleSettler]
  BY DEF Settle
<1>2. sub' = sub \/ sub' = Recovered(seen, settler[s].paidAt)
  BY DEF Settle
<1>3. sub' \in SubscriptionRow
  <2>1. settler[s].paidAt \in Nat /\ settler[s].paidAt + Interval \in Nat
    BY RenewalAssumption DEF TypeOK
  <2> QED
    BY <1>2, <2>1 DEF Recovered, TypeOK, SubscriptionRow, Status
<1>4. /\ invoice' \in [Invoices -> InvoiceRow]
      /\ \A j \in Invoices : invoice'[j].start = invoice[j].start /\ invoice'[j].end = invoice[j].end
  <2>1. \A j \in Invoices : invoice[j].start \in Nat /\ invoice[j].end \in Nat
    BY DEF TypeOK, InvoiceRow
  <2>2. \A j \in Invoices :
          /\ Bill("PAID", invoice[j].start, invoice[j].end) \in InvoiceRow
          /\ Bill("PAID", invoice[j].start, invoice[j].end).start = invoice[j].start
          /\ Bill("PAID", invoice[j].start, invoice[j].end).end = invoice[j].end
    BY <2>1, Bills
  <2> HIDE DEF i
  <2> QED
    BY <1>1, <2>2 DEF TypeOK
<1>5. TypeOK'
  BY <1>1, <1>3, <1>4, IdleTypes DEF TypeOK
<1>6. seen # "UNPAID" => sub'.start = sub.start /\ sub'.end = sub.end /\ rebased' = rebased
  BY <1>1, <1>2 DEF Recovered, TypeOK, SubscriptionRow
<1>7. LockHeldOnce' /\ SweepIsDue'
  BY <1>1 DEF LockHeldOnce, SweepIsDue
<1>8. LockedRowIsFresh'
  BY <1>1, <1>6 DEF LockedRowIsFresh
<1>9. PeriodsAreBilledOnce'
  <2>1. CASE seen = "UNPAID"
    BY <1>1, <2>1 DEF PeriodsAreBilledOnce
  <2>2. CASE seen # "UNPAID"
    BY <1>1, <1>4, <1>6, <2>2, WindowsKept DEF SameWindows
  <2> QED
    BY <2>1, <2>2
<1> QED
  BY <1>5, <1>7, <1>8, <1>9

LEMMA NextInv == IInv /\ [Next]_vars => IInv'
<1> SUFFICES ASSUME IInv, [Next]_vars PROVE IInv'
  OBVIOUS
<1>1. ASSUME NEW w \in Renewers, Renew(w) \/ Crash(w) PROVE IInv'
  BY <1>1, BeginningInv, OpenPeriodInv, LeavingInv DEF Renew
<1>2. ASSUME NEW s \in Settlers, Post(s) PROVE IInv'
  BY <1>2, ElsewhereInv, SettleInv DEF Post
<1>3. CASE Outside
  BY <1>3, ElsewhereInv DEF Outside, ByPeople
<1>4. CASE UNCHANGED vars
  BY <1>4 DEF vars, IInv, TypeOK, LockHeldOnce, LockedRowIsFresh, SweepIsDue,
              PeriodsAreBilledOnce
<1> QED
  BY <1>1, <1>2, <1>3, <1>4 DEF Next

LEMMA Invariance == Spec => []IInv
  BY InitInv, NextInv, PTL DEF Spec

-----------------------------------------------------------------------------
(* A trial whose first paid period is open.  Nothing leads into TRIALING,  *)
(* so whoever read the row while it says so read it too; and the sweep     *)
(* that opened the period stays until there is a charge, or closes the     *)
(* trial.                                                                  *)

TrialIsSeen ==
  sub.status = "TRIALING" =>
    /\ \A w \in Renewers : worker[w].pc = "renewing" => worker[w].seen.status = "TRIALING"
    /\ \A s \in Settlers : settler[s].pc = "posting" => settler[s].seen = "TRIALING"

CollectsWhatWasIssued ==
  \A w \in Renewers : worker[w].pc = "collecting" => worker[w].inv \in 1..issued

InFlight(i) == invoice[i].status = "OPEN" /\ invoice[i].charge # "none"

Opened(w) == worker[w].pc = "collecting" /\ worker[w].seen.status = "TRIALING"

OnlySweepsRenewed == crashes = 0 /\ \A r \in Requests : worker[r].pc = "idle"

TrialIsAttended ==
  OnlySweepsRenewed /\ sub.status = "TRIALING" /\ issued > 0 =>
    \/ \E i \in 1..issued : InFlight(i)
    \/ \E w \in Sweeps : Opened(w)

TrialInv == IInv /\ TrialIsSeen /\ CollectsWhatWasIssued /\ TrialIsAttended

LEMMA InitTrial == Init => TrialInv
<1> SUFFICES ASSUME Init PROVE TrialInv
  OBVIOUS
<1>1. IInv
  BY InitInv
<1>2. /\ \A w \in Renewers : worker[w].pc = "idle"
      /\ \A s \in Settlers : settler[s].pc = "idle"
  BY DEF Init, IdleWorker, IdleSettler
<1>3. sub.status = "TRIALING" => issued = 0
  BY DEF Init
<1> QED
  BY <1>1, <1>2, <1>3
  DEF TrialInv, TrialIsSeen, CollectsWhatWasIssued, TrialIsAttended

\* What a step of one worker does to the others, and to itself when it leaves.
LEMMA OneWorkerMoves ==
  ASSUME TypeOK, NEW w \in Renewers, Renew(w) \/ Crash(w)
  PROVE  /\ UNCHANGED settler
         /\ \A v \in Renewers : v # w => worker'[v] = worker[v]
         /\ w \in Requests => worker'[w].pc # "idle"
         /\ sub'.status = "TRIALING" => sub.status = "TRIALING"
<1>1. UNCHANGED settler
  BY DEF Renew, Crash, Select, BeginRenewal, SkipRenewal, OpenPeriod, CancelAtPeriodEnd,
         RenewalLost, StartCharge, Collect, CollectFails
<1>2. \E place : worker' = [worker EXCEPT ![w] = place]
  BY DEF Renew, Crash, Select, BeginRenewal, SkipRenewal, OpenPeriod, CancelAtPeriodEnd,
         RenewalLost, StartCharge, Collect, CollectFails, Finish
<1>3. \A v \in Renewers : v # w => worker'[v] = worker[v]
  BY <1>2 DEF TypeOK
<1>4. w \in Requests => worker'[w].pc # "idle"
  <2> SUFFICES ASSUME w \in Requests PROVE worker'[w].pc # "idle"
    OBVIOUS
  <2>0. w \notin Sweeps
    BY RenewalAssumption
  <2>1. CASE Finish(w)
    BY <2>0, <2>1 DEF Finish, IdleWorker, TypeOK
  <2>2. CASE BeginRenewal(w)
    BY <2>2 DEF BeginRenewal, IdleWorker, TypeOK
  <2>3. ASSUME NEW collectable \in BOOLEAN, NEW status \in {"OPEN", "PAID"},
               OpenPeriod(w, collectable, status)
        PROVE  worker'[w].pc # "idle"
    BY <2>3 DEF OpenPeriod, IdleWorker, TypeOK
  <2>4. CASE StartCharge(w)
    BY <2>4 DEF StartCharge, TypeOK
  <2> QED
    BY <2>0, <2>1, <2>2, <2>3, <2>4
    DEF Renew, Crash, Select, SkipRenewal, CancelAtPeriodEnd, RenewalLost, Collect,
        CollectFails
<1>5. sub'.status = "TRIALING" => sub.status = "TRIALING"
  BY DEF Renew, Crash, Select, BeginRenewal, SkipRenewal, OpenPeriod, CancelAtPeriodEnd,
         RenewalLost, StartCharge, Collect, CollectFails, TypeOK, SubscriptionRow
<1> QED
  BY <1>1, <1>3, <1>4, <1>5

\* Enough for the last conjunct of a worker's step: the guarded cases before it hold
\* before the step too, and every witness but the worker itself is still there.
LEMMA WorkerAttends ==
  ASSUME TrialInv, NEW w \in Renewers, Renew(w) \/ Crash(w),
         \A i \in 1..issued : InFlight(i) => InFlight(i)',
         issued' >= issued, issued' \in Nat,
         issued > 0 /\ OnlySweepsRenewed' /\ sub'.status = "TRIALING" =>
           \/ ~Opened(w)
           \/ \E i \in 1..issued : InFlight(i)',
         issued = 0 /\ OnlySweepsRenewed' /\ sub'.status = "TRIALING" =>
           issued' = 0 \/ (w \in Sweeps /\ Opened(w)'),
         crashes' = 0 => crashes = 0
  PROVE  TrialIsAttended'
<1> SUFFICES ASSUME OnlySweepsRenewed', sub'.status = "TRIALING", issued' > 0
             PROVE  \/ \E i \in 1..issued' : InFlight(i)'
                    \/ \E v \in Sweeps : Opened(v)'
  BY DEF TrialIsAttended
<1>0. TypeOK /\ issued \in Nat /\ 1..issued \subseteq 1..issued'
  BY RenewalAssumption DEF TrialInv, IInv, TypeOK
<1>1. CASE issued = 0
  BY <1>1
<1>2. CASE issued > 0
  <2>1. sub.status = "TRIALING"
    BY <1>0, OneWorkerMoves
  <2>2. OnlySweepsRenewed
    BY <1>0, OneWorkerMoves, RenewalAssumption DEF OnlySweepsRenewed, Renewers
  <2>3. (\E i \in 1..issued : InFlight(i)) \/ \E v \in Sweeps : Opened(v)
    BY <1>2, <2>1, <2>2 DEF TrialInv, TrialIsAttended
  <2>4. ASSUME NEW v \in Sweeps, Opened(v), v # w PROVE Opened(v)'
    BY <1>0, <2>4, OneWorkerMoves DEF Opened, Renewers
  <2> QED
    BY <1>0, <1>2, <2>3, <2>4
<1> QED
  BY <1>0, <1>1, <1>2

LEMMA WorkerTrial ==
  ASSUME TrialInv, NEW w \in Renewers, Renew(w) \/ Crash(w)
  PROVE  TrialInv'
<1> USE DEF TrialInv
<1>0. IInv' /\ TypeOK /\ TypeOK'
  BY NextInv DEF IInv, Next
<1>a. issued \in Nat
  BY <1>0, RenewalAssumption DEF TypeOK
<1>1. TrialIsSeen'
  <2> SUFFICES ASSUME sub'.status = "TRIALING"
               PROVE  worker'[w].pc = "renewing" => worker'[w].seen.status = "TRIALING"
    BY <1>0, OneWorkerMoves DEF TrialIsSeen
  <2>1. sub.status = "TRIALING"
    BY <1>0, OneWorkerMoves
  <2>2. CASE BeginRenewal(w)
    BY <1>0, <2>1, <2>2 DEF BeginRenewal, IdleWorker, TypeOK
  <2>3. CASE ~BeginRenewal(w)
    <3>1. worker'[w].pc # "renewing"
      <4>1. CASE Finish(w)
        BY <1>0, <4>1 DEF Finish, IdleWorker, TypeOK
      <4>2. CASE Select(w)
        BY <1>0, <4>2 DEF Select, IdleWorker, TypeOK
      <4>3. CASE SkipRenewal(w)
        BY <1>0, <4>3 DEF SkipRenewal, IdleWorker, TypeOK
      <4>4. ASSUME NEW collectable \in BOOLEAN, NEW status \in {"OPEN", "PAID"},
                   OpenPeriod(w, collectable, status)
            PROVE  worker'[w].pc # "renewing"
        BY <1>0, <4>4 DEF OpenPeriod, IdleWorker, TypeOK
      <4>5. CASE StartCharge(w)
        BY <1>0, <4>5 DEF StartCharge, TypeOK
      <4> QED
        BY <2>3, <4>1, <4>2, <4>3, <4>4, <4>5
        DEF Renew, Crash, CancelAtPeriodEnd, RenewalLost, Collect, CollectFails
    <3> QED
      BY <3>1
  <2> QED
    BY <2>2, <2>3
<1>2. CASE \E collectable \in BOOLEAN, status \in {"OPEN", "PAID"} :
             OpenPeriod(w, collectable, status)
  <2>1. PICK collectable \in BOOLEAN, status \in {"OPEN", "PAID"} :
          OpenPeriod(w, collectable, status)
    BY <1>2
  <2>2. /\ worker[w].pc = "renewing" /\ issued' = issued + 1 /\ crashes' = crashes
        /\ issued < MaxInvoices
        /\ \A i \in 1..issued : invoice'[i] = invoice[i]
    <3>1. \A i \in 1..issued : i # issued + 1
      BY <1>a
    <3>2. issued < MaxInvoices /\ MaxInvoices \in Nat
      BY <2>1, RenewalAssumption DEF OpenPeriod, Issue
    <3>3. \A i \in 1..issued : i \in Invoices
      BY <1>a, <3>2 DEF Invoices
    <3> QED
      BY <1>0, <2>1, <3>1, <3>3 DEF OpenPeriod, Issue, TypeOK
  <2>3. /\ worker'[w].pc = "collecting" /\ worker'[w].inv = issued + 1
        /\ worker'[w].seen.status = worker[w].seen.status
    BY <1>0, <2>1 DEF OpenPeriod, IdleWorker, Unread, TypeOK
  <2>4. CollectsWhatWasIssued'
    <3>1. 1..issued \subseteq 1..issued' /\ issued + 1 \in 1..issued'
      BY <1>a, <2>2
    <3> QED
      BY <1>0, <2>3, <3>1, OneWorkerMoves DEF CollectsWhatWasIssued
  <2>5. sub'.status = "TRIALING" => worker'[w].seen.status = "TRIALING"
    BY <1>0, <2>2, <2>3, OneWorkerMoves DEF TrialIsSeen
  <2>6. OnlySweepsRenewed' => w \in Sweeps
    BY <2>3 DEF OnlySweepsRenewed, Renewers
  <2>7. TrialIsAttended'
    BY <2>3, <2>5, <2>6 DEF TrialIsAttended, Opened
  <2> QED
    BY <1>0, <1>1, <2>4, <2>7
<1>3. CASE StartCharge(w)
  <2> DEFINE n == worker[w].inv
  <2>1. /\ worker[w].pc = "collecting" /\ n \in 1..issued
        /\ UNCHANGED <<sub, issued, crashes>>
        /\ invoice[n].status = "OPEN"
    BY <1>3 DEF StartCharge, Chargeable, CollectsWhatWasIssued
  <2>2. \A i \in 1..issued : i \in Invoices
    BY <1>0, <1>a, RenewalAssumption DEF TypeOK, Invoices
  <2>3. invoice' = [invoice EXCEPT ![n] = [invoice[n] EXCEPT !.charge = "pending"]]
    BY <1>3 DEF StartCharge
  <2> HIDE DEF n
  <2>4. \A i \in Invoices : InFlight(i) \/ i = n => InFlight(i)'
    BY <1>0, <2>1, <2>2, <2>3 DEF InFlight, TypeOK, InvoiceRow
  <2>5. CollectsWhatWasIssued'
    <3>1. worker'[w].pc = "charging"
      BY <1>0, <1>3 DEF StartCharge, TypeOK
    <3> QED
      BY <1>0, <2>1, <3>1, OneWorkerMoves DEF CollectsWhatWasIssued
  <2>6. TrialIsAttended'
    BY <2>1, <2>2, <2>4 DEF TrialIsAttended
  <2> QED
    BY <1>0, <1>1, <2>5, <2>6
<1>4. CASE \/ Select(w) \/ BeginRenewal(w) \/ SkipRenewal(w) \/ CancelAtPeriodEnd(w)
           \/ RenewalLost(w) \/ Collect(w) \/ CollectFails(w) \/ Crash(w)
  <2>1. UNCHANGED <<issued, invoice>> /\ crashes' \in {crashes, crashes + 1}
    BY <1>4 DEF Select, BeginRenewal, SkipRenewal, CancelAtPeriodEnd, RenewalLost, Collect,
                CollectFails, Crash
  <2>2. worker'[w].pc # "collecting"
    <3>1. CASE Finish(w)
      BY <1>0, <3>1 DEF Finish, IdleWorker, TypeOK
    <3>2. CASE Select(w)
      BY <1>0, <3>2 DEF Select, IdleWorker, TypeOK
    <3>3. CASE SkipRenewal(w)
      BY <1>0, <3>3 DEF SkipRenewal, IdleWorker, TypeOK
    <3>4. CASE BeginRenewal(w)
      BY <1>0, <3>4 DEF BeginRenewal, IdleWorker, TypeOK
    <3> QED
      BY <1>4, <3>1, <3>2, <3>3, <3>4
      DEF Crash, CancelAtPeriodEnd, RenewalLost, Collect, CollectFails
  <2>3. CollectsWhatWasIssued'
    BY <1>0, <2>1, <2>2, OneWorkerMoves DEF CollectsWhatWasIssued
  <2>4. crashes' = 0 => crashes = 0 /\ ~Crash(w)
    BY <1>0, <2>1, RenewalAssumption DEF Crash, TypeOK
  <2>5. OnlySweepsRenewed' /\ sub'.status = "TRIALING" => ~Opened(w)
    <3> SUFFICES ASSUME OnlySweepsRenewed', sub'.status = "TRIALING", Opened(w) PROVE FALSE
      OBVIOUS
    <3>1. ~Crash(w)
      BY <2>4 DEF OnlySweepsRenewed
    <3>2. w \in Sweeps
      BY <1>0, OneWorkerMoves DEF OnlySweepsRenewed, Renewers
    <3>3. CollectFails(w)
      BY <1>4, <3>1, <3>2 DEF Opened, Select, BeginRenewal, SkipRenewal, Starting,
                              CancelAtPeriodEnd, RenewalLost, Collect
    <3>4. sub.status = "TRIALING"
      BY <1>0, OneWorkerMoves
    <3> QED
      BY <1>0, <3>2, <3>3, <3>4 DEF CollectFails, Opened, TypeOK, SubscriptionRow
  <2>6. TrialIsAttended'
    <3>1. \A i \in 1..issued : InFlight(i) => InFlight(i)'
      BY <2>1 DEF InFlight
    <3>2. issued' >= issued /\ issued' \in Nat
      BY <1>a, <2>1
    <3>3. crashes' = 0 => crashes = 0
      BY <2>4
    <3> QED
      BY <2>1, <2>5, <3>1, <3>2, <3>3, WorkerAttends
  <2> QED
    BY <1>0, <1>1, <2>3, <2>6
<1> QED
  BY <1>2, <1>3, <1>4 DEF Renew

\* Payments and people: whoever moves the status takes it out of TRIALING, and an
\* invoice in flight stays so until then.
Elsewhere ==
  \/ \E s \in Settlers : Post(s)
  \/ Outside

LEMMA ElsewhereStays ==
  ASSUME TypeOK, Elsewhere
  PROVE  /\ UNCHANGED <<issued, worker, crashes>>
         /\ sub'.status = "TRIALING" => sub.status = "TRIALING"
<1>1. UNCHANGED <<issued, worker, crashes>>
  BY DEF Elsewhere, Post, Outside, BeginSettle, Settle, SettleLost, Retry, Collected, Declined,
         ExpireGracePeriod, PauseSubscription, ResumeFromPause, SetStatus, CancelImmediately,
         ScheduleCancel, RevokeCancel, Tick
<1>2. sub'.status = "TRIALING" => sub.status = "TRIALING"
  <2>1. ASSUME NEW from, NEW to, SetStatus(from, to), to # "TRIALING"
        PROVE  sub'.status # "TRIALING"
    BY <2>1 DEF SetStatus, TypeOK, SubscriptionRow
  <2>2. CASE ExpireGracePeriod \/ PauseSubscription \/ ResumeFromPause
    <3>1. \A action \in FailureAction : StatusForFailureAction[action] # "TRIALING"
      BY DEF FailureAction, StatusForFailureAction
    <3> QED
      BY <2>1, <2>2, <3>1 DEF ExpireGracePeriod, PauseSubscription, ResumeFromPause
  <2>3. CASE CancelImmediately \/ ScheduleCancel \/ RevokeCancel
    BY <2>3 DEF CancelImmediately, ScheduleCancel, RevokeCancel, TypeOK, SubscriptionRow
  <2>4. ASSUME NEW s \in Settlers, Settle(s) PROVE sub'.status = "TRIALING" => sub.status = "TRIALING"
    BY <2>4 DEF Settle, Recovered, TypeOK, SubscriptionRow
  <2>5. ASSUME NEW i \in Invoices, Declined(i)
        PROVE  sub'.status = "TRIALING" => sub.status = "TRIALING"
    BY <2>5 DEF Declined, TypeOK, SubscriptionRow
  <2> QED
    BY <2>2, <2>3, <2>4, <2>5
    DEF Elsewhere, Post, Outside, BeginSettle, SettleLost, Retry, Collected, Tick
<1> QED
  BY <1>1, <1>2

LEMMA ElsewhereTrial ==
  ASSUME TrialInv, Elsewhere
  PROVE  TrialInv'
<1> USE DEF TrialInv
<1>0. IInv' /\ TypeOK
  BY NextInv DEF IInv, Next, Elsewhere
<1>1. CollectsWhatWasIssued'
  BY <1>0, ElsewhereStays DEF CollectsWhatWasIssued
<1>2. CASE sub'.status # "TRIALING"
  BY <1>0, <1>1, <1>2 DEF TrialIsSeen, TrialIsAttended
<1>3. CASE sub'.status = "TRIALING"
  <2>0. sub.status = "TRIALING"
    BY <1>0, <1>3, ElsewhereStays
  <2>1. ASSUME NEW s \in Settlers, Settle(s) PROVE FALSE
    <3>1. settler[s].seen = "TRIALING"
      BY <2>0, <2>1 DEF Settle, TrialIsSeen
    <3>2. sub'.status = "ACTIVE"
      BY <1>0, <2>1, <3>1 DEF Settle, Recovered, RecoverableStatuses, TypeOK, SubscriptionRow
    <3> QED
      BY <1>3, <3>2
  <2>2. ASSUME NEW i \in Invoices, Declined(i) PROVE FALSE
    BY <1>0, <1>3, <2>0, <2>2 DEF Declined, TypeOK, SubscriptionRow
  <2>3. \A s \in Settlers : settler'[s].pc = "posting" => settler'[s].seen = "TRIALING"
    <3>1. CASE UNCHANGED settler
      BY <2>0, <3>1 DEF TrialIsSeen
    <3>2. ASSUME NEW s \in Settlers, NEW i \in Invoices, BeginSettle(s, i)
          PROVE  \A t \in Settlers : settler'[t].pc = "posting" => settler'[t].seen = "TRIALING"
      BY <1>0, <2>0, <3>2 DEF BeginSettle, TrialIsSeen, TypeOK
    <3>3. ASSUME NEW s \in Settlers, SettleLost(s)
          PROVE  \A t \in Settlers : settler'[t].pc = "posting" => settler'[t].seen = "TRIALING"
      BY <1>0, <2>0, <3>3 DEF SettleLost, IdleSettler, TrialIsSeen, TypeOK
    <3> QED
      BY <2>1, <2>2, <3>1, <3>2, <3>3
      DEF Elsewhere, Post, Outside, Retry, Collected, ExpireGracePeriod, PauseSubscription,
          ResumeFromPause, SetStatus, CancelImmediately, ScheduleCancel, RevokeCancel, Tick
  <2>4. TrialIsSeen'
    BY <2>0, <2>3, ElsewhereStays, <1>0 DEF TrialIsSeen
  <2>5. \A i \in Invoices : InFlight(i) => InFlight(i)'
    <3>1. CASE UNCHANGED invoice
      BY <3>1 DEF InFlight
    <3>2. ASSUME NEW i \in Invoices, Retry(i) PROVE \A j \in Invoices : InFlight(j) => InFlight(j)'
      <4>1. invoice' = [invoice EXCEPT ![i] = [invoice[i] EXCEPT !.charge = "pending"]]
        BY <3>2 DEF Retry
      <4> QED
        BY <1>0, <4>1 DEF InFlight, TypeOK, InvoiceRow
    <3>3. ASSUME NEW i \in Invoices, Collected(i)
          PROVE  \A j \in Invoices : InFlight(j) => InFlight(j)'
      <4>1. \A row \in InvoiceRow, at \in Nat :
              LET paid == [row EXCEPT !.charge = "collected", !.paidAt = at]
              IN  paid.status = row.status /\ paid.charge = "collected"
        BY DEF InvoiceRow
      <4>2. invoice' = [invoice EXCEPT ![i] =
                          [invoice[i] EXCEPT !.charge = "collected", !.paidAt = now]]
        BY <3>3 DEF Collected
      <4>3. invoice'[i].status = invoice[i].status /\ invoice'[i].charge = "collected"
        BY <1>0, <4>1, <4>2 DEF TypeOK
      <4> QED
        BY <1>0, <4>2, <4>3 DEF InFlight, TypeOK
    <3> QED
      BY <2>1, <2>2, <3>1, <3>2, <3>3
      DEF Elsewhere, Post, Outside, BeginSettle, SettleLost, ExpireGracePeriod,
          PauseSubscription, ResumeFromPause, SetStatus, CancelImmediately, ScheduleCancel,
          RevokeCancel, Tick
  <2>6. 1..issued \subseteq Invoices
    BY <1>0, RenewalAssumption DEF TypeOK, Invoices
  <2>7. TrialIsAttended'
    BY <1>0, <2>0, <2>5, <2>6, ElsewhereStays DEF TrialIsAttended, OnlySweepsRenewed, Opened
  <2> QED
    BY <1>0, <1>1, <2>4, <2>7
<1> QED
  BY <1>2, <1>3

LEMMA TrialInvariance == Spec => []TrialInv
<1>1. TrialInv /\ [Next]_vars => TrialInv'
  <2>1. CASE UNCHANGED vars
    BY <2>1, NextInv
    DEF vars, TrialInv, TrialIsSeen, CollectsWhatWasIssued, TrialIsAttended,
        OnlySweepsRenewed, InFlight, Opened
  <2> QED
    BY <2>1, WorkerTrial, ElsewhereTrial DEF Next, Elsewhere
<1> QED
  BY <1>1, InitTrial, PTL DEF Spec

-----------------------------------------------------------------------------
(* The theorems *)

\* The rows and everybody who works on them keep their types.
THEOREM TypeCorrect == Spec => []TypeOK
<1>1. IInv => TypeOK
  BY DEF IInv
<1> QED
  BY <1>1, Invariance, PTL

\* However many sweeps and requests renew one subscription at once, no period is
\* invoiced twice or skipped, until a recovery from UNPAID moves the period.
THEOREM NoPeriodTwice == Spec => []PeriodsAreBilledOnce
<1>1. IInv => PeriodsAreBilledOnce
  BY DEF IInv
<1> QED
  BY <1>1, Invariance, PTL

\* A sweep never bills a period that has not begun, nor cancels early.
THEOREM SweepsWait == Spec => SweepActsWhenDue
<1> DEFINE Step ==
      \A w \in Sweeps :
       worker[w].pc = "renewing" /\ worker'[w].pc # "renewing" /\ crashes' = crashes =>
         /\ issued' # issued => invoice'[issued'].start <= now
         /\ sub'.status = "CANCELED" /\ sub.status # "CANCELED" /\ ~rebased =>
              sub.end <= now
<1>1. IInv /\ [Next]_vars => [Step]_vars
  <2> SUFFICES ASSUME IInv, Next, NEW w \in Sweeps, worker[w].pc = "renewing",
                      worker'[w].pc # "renewing", crashes' = crashes
               PROVE  /\ issued' # issued => invoice'[issued'].start <= now
                      /\ sub'.status = "CANCELED" /\ sub.status # "CANCELED" /\ ~rebased =>
                           sub.end <= now
    OBVIOUS
  <2>1. w \in Renewers /\ worker[w].seen.end <= now /\ worker[w].seen.end \in Nat
    BY DEF IInv, SweepIsDue, TypeOK, Renewers, Reading
  <2>2. ~rebased => sub.end <= now
    BY <2>1 DEF IInv, LockedRowIsFresh
  <2>3. ASSUME issued' # issued PROVE invoice'[issued'].start <= now
    <3>1. PICK v \in Renewers, collectable \in BOOLEAN, status \in {"OPEN", "PAID"} :
            OpenPeriod(v, collectable, status)
      BY <2>3 DEF Next, Renew, Post, Outside, Select, BeginRenewal, SkipRenewal,
                  CancelAtPeriodEnd, RenewalLost, StartCharge, Collect, CollectFails, Crash,
                  Retry, Collected, Declined, ExpireGracePeriod, PauseSubscription,
                  ResumeFromPause, SetStatus, CancelImmediately, ScheduleCancel, RevokeCancel,
                  Tick, BeginSettle, Settle, SettleLost
    <3>2. v = w
      BY <2>1, <3>1 DEF OpenPeriod, IInv, LockHeldOnce
    <3>3. /\ issued < MaxInvoices /\ issued' = issued + 1
          /\ invoice' = [invoice EXCEPT ![issued + 1] =
                           Bill(status, worker[w].seen.end, worker[w].seen.end + Interval)]
      BY <3>1, <3>2 DEF OpenPeriod, Issue
    <3>4. issued + 1 \in Invoices
      BY <3>3, RenewalAssumption DEF IInv, TypeOK, Invoices
    <3>5. worker[w].seen.end + Interval \in Nat
      BY <2>1, RenewalAssumption
    <3>6. invoice'[issued + 1].start = worker[w].seen.end
      BY <2>1, <3>3, <3>4, <3>5, Bills DEF IInv, TypeOK
    <3> QED
      BY <2>1, <3>3, <3>6
  <2> QED
    BY <2>2, <2>3
<1> QED
  BY <1>1, Invariance, PTL DEF Spec, SweepActsWhenDue

\* While no process has died and only sweeps have renewed, a trial whose first paid
\* period is open is still TRIALING only while some charge will decide.
THEOREM TrialsAreCharged == Spec => []InvoicedTrialAwaitsACharge
<1>1. TrialInv => InvoicedTrialAwaitsACharge
  <2> SUFFICES ASSUME TrialInv, OnlySweepsRenewed, sub.status = "TRIALING", issued > 0,
                      \A w \in Sweeps : worker[w].pc \in {"idle", "selected"}
               PROVE  \E i \in 1..issued : InFlight(i)
    BY DEF InvoicedTrialAwaitsACharge, OnlySweepsRenewed, InFlight
  <2> QED
    BY DEF TrialInv, TrialIsAttended, Opened
<1> QED
  BY <1>1, TrialInvariance, PTL

=============================================================================
