------------------------------ MODULE Metering ------------------------------
(***************************************************************************)
(* Usage events and what they are billed as, where the deployment resells  *)
(* itself: one merchant is a customer of the platform, on one or more      *)
(* metered prices, and the payments the merchant collects are events of    *)
(* its meter.  They are written by the scheduled pass, and by each renewal *)
(* before it reads the usage it invoices (flushPlatformVolume).  The       *)
(* platform's own application sends events of its own (trackUsage).        *)
(* A price names its meter: a new version or another plan may name another *)
(* one, and a meter may be archived and restored.                          *)
(*                                                                         *)
(* The pass and trackUsage commit statement by statement; a renewal is one *)
(* READ COMMITTED transaction under the subscription's advisory lock, so   *)
(* its inserts are hidden until it commits, and an insert of the same key  *)
(* elsewhere waits for it.                                                 *)
(***************************************************************************)
EXTENDS UsageMath, FiniteSetsExt

CONSTANTS
  Payments,      \* the payments the merchant asks for
  Tracked,       \* the event ids the application sends
  Units,         \* what each payment, in major units, and each event counts
  Foreign,       \* the payments in another currency than the platform's price
  MaxUnits,      \* the largest event the column holds (MAX_UNITS)
  Enrolments,    \* 1..n: the merchant's metered subscriptions, oldest first
  MetersOf,      \* the meters the versions and plans of each one's price may name
  FirstMeter,    \* the one it signed up on
  Rating,        \* the economics of the price
  MeterOf,       \* the meter each event is sent to
  PeriodLength,
  Lookback,      \* how far back the pass reads
  Horizon,       \* bound: where the clock stops
  MaxUpsets      \* bound: lapses, recoveries, cancellations, edits of prices and
                 \* meters, plan changes, renewals by hand and failures

Meters == UNION {MetersOf[s] : s \in Enrolments}
Keys == Payments \cup Tracked
Days == 0..Horizon

ASSUME MeteringAssumption ==
  /\ Payments \cap Tracked = {} /\ IsFiniteSet(Payments) /\ IsFiniteSet(Tracked)
  /\ Units \in [Keys -> Nat] /\ Foreign \subseteq Payments /\ MaxUnits \in Nat
  /\ Enrolments \subseteq Nat /\ DOMAIN MetersOf = Enrolments /\ "none" \notin Meters
  /\ FirstMeter \in [Enrolments -> Meters] /\ \A s \in Enrolments : FirstMeter[s] \in MetersOf[s]
  /\ Rating \in [included : Nat, unitAmount : Nat, unitSize : Nat, cap : Nat]
  /\ MeterOf \in [Tracked -> Meters]
  /\ PeriodLength \in Nat \ {0} /\ Lookback \in Nat /\ Horizon \in Nat
  /\ MaxUpsets \in Nat

VARIABLES
  now,
  payment,     \* the merchant's PaymentAttempt rows
  event,       \* the UsageEvent rows, by (organizationId, eventId)
  sub,         \* the Subscription rows, each with the meter its price names
  offer,       \* the meter the newest version of each one's price names
  active,      \* the meters that are not archived
  pass,        \* the scheduled pass
  renewal,     \* the renewal of each subscription in flight
  bills,       \* the usage lines of the invoices issued
  upsets,      \* how many of them there were
  rebased,     \* whether a recovery from UNPAID has moved a period
  moved        \* the enrolments whose price has been given another meter

prices == <<offer, active, moved>>
vars == <<now, payment, event, sub, prices, pass, renewal, bills, upsets, rebased>>

NoEvent == [meter |-> "none", at |-> 0]
NoPass == [reading |-> FALSE, onto |-> "none", rows |-> {}]
NoRenewal == [stage |-> "idle", start |-> 0, end |-> 0, meter |-> "none", rolls |-> FALSE,
              known |-> {}, onto |-> "none", rows |-> {}]

\* counted is what the line's number stands for; known is history: the payments already
\* recorded when the renewal began, if its flush metered.
Bill == [sub : Enrolments, meter : Meters, start : Nat, end : Nat, charge : 0..Rating.cap, counted : SUBSET Keys,
         known : SUBSET Payments]

TypeOK ==
  /\ now \in Days /\ rebased \in BOOLEAN
  /\ upsets \in 0..MaxUpsets
  \* TAKEN: the provider has the money, the row is still PENDING.
  /\ payment \in [Payments -> [status : {"PENDING", "TAKEN", "SUCCEEDED"}, paidAt : Days]]
  /\ event \in [Keys -> [meter : Meters \cup {"none"}, at : Days]]
  /\ \A s \in Enrolments :
       /\ sub[s] \in [status : {"ACTIVE", "UNPAID", "CANCELED"}, start : Nat, end : Nat,
                      meter : MetersOf[s]]
       /\ sub[s].start < sub[s].end
       /\ offer[s] \in MetersOf[s]
  /\ active \subseteq Meters /\ moved \subseteq Enrolments
  /\ pass \in [reading : BOOLEAN, onto : Meters \cup {"none"}, rows : SUBSET Payments]
  /\ renewal \in [Enrolments ->
       [stage : {"idle", "begun", "flushed"}, start : Nat, end : Nat, meter : Meters \cup {"none"},
        rolls : BOOLEAN, known : SUBSET Payments, onto : Meters \cup {"none"}, rows : SUBSET Payments]]
  /\ \A b \in bills : b \in Bill

---------------------------------------------------------------------------

InWindowClosed(t, from, until) == from <= t /\ t <= until
InWindow(t, from, until) == from <= t /\ t < until

\* Written and committed; an event a renewal in flight has inserted is not.
Recorded(k) == event[k].meter # "none"
Held(k) == \E s \in Enrolments : renewal[s].stage = "flushed" /\ k \in renewal[s].rows

EnrolledPaying(s) == sub[s].status = "ACTIVE"

\* A lapsed subscription still meters.  The flush takes the oldest enrolment of all for
\* the one that does; the pass, the oldest whose meter is not archived.
Enrolled(s) == sub[s].status \in {"ACTIVE", "UNPAID"}
Canonical(s) == Enrolled(s) /\ \A t \in Enrolments : Enrolled(t) => s <= t
Meterable(s) == Enrolled(s) /\ sub[s].meter \in active
FirstSeen(s) == Meterable(s) /\ \A t \in Enrolments : Meterable(t) => s <= t

\* buildVolumeEvents: no row for a foreign currency, for nothing, or for too much.
Countable(p) == p \notin Foreign /\ Units[p] \in 1..MaxUnits

Settled(p) == payment[p].status = "SUCCEEDED"
VolumeIn(from, until) ==
  {p \in Payments : Settled(p) /\ InWindow(payment[p].paidAt, from, until) /\ Countable(p)}

Total(keys) == FoldSet(LAMBDA k, sum : Units[k] + sum, 0, keys)

Init ==
  /\ now = 0
  /\ payment = [p \in Payments |-> [status |-> "PENDING", paidAt |-> 0]]
  /\ event = [k \in Keys |-> NoEvent]
  /\ sub = [s \in Enrolments |-> [status |-> "ACTIVE", start |-> 0, end |-> PeriodLength,
                                 meter |-> FirstMeter[s]]]
  /\ offer = FirstMeter /\ active = Meters /\ moved = {}
  /\ pass = NoPass
  /\ renewal = [s \in Enrolments |-> NoRenewal]
  /\ bills = {} /\ rebased = FALSE /\ upsets = 0

---------------------------------------------------------------------------
(* The merchant's payments, and what else happens to the subscriptions. *)

\* The provider takes the money now; the platform learns of it by a webhook, by the
\* caller's own answer or by reconciliation, at once or later.
Take(p) ==
  /\ payment[p].status = "PENDING"
  /\ payment' = [payment EXCEPT ![p] = [status |-> "TAKEN", paidAt |-> now]]
  /\ UNCHANGED <<now, event, sub, prices, pass, renewal, bills, upsets, rebased>>

Settle(p) ==
  /\ payment[p].status = "TAKEN"
  /\ payment' = [payment EXCEPT ![p].status = "SUCCEEDED"]
  /\ UNCHANGED <<now, event, sub, prices, pass, renewal, bills, upsets, rebased>>

\* Of the ladder's end, the customer's cancellation (at once, or the sweep's at the
\* period's end, which bills no usage either) and a recovery from UNPAID.
Upset(s, row) ==
  /\ upsets < MaxUpsets
  /\ sub' = [sub EXCEPT ![s] = row]
  /\ upsets' = upsets + 1
  /\ UNCHANGED <<now, payment, event, pass, renewal, bills>>

Lapse(s) ==
  /\ sub[s].status = "ACTIVE"
  /\ Upset(s, [sub[s] EXCEPT !.status = "UNPAID"])
  /\ UNCHANGED <<prices, rebased>>

Cancel(s) ==
  /\ sub[s].status # "CANCELED"
  /\ Upset(s, [sub[s] EXCEPT !.status = "CANCELED"])
  /\ UNCHANGED <<prices, rebased>>

\* planPaymentRecovery: the period starts again at the payment.
Recover(s) ==
  /\ sub[s].status = "UNPAID"
  /\ Upset(s, [sub[s] EXCEPT !.status = "ACTIVE", !.start = now, !.end = now + PeriodLength])
  /\ rebased' = TRUE
  /\ UNCHANGED prices

\* updatePrice: the subscription stays on the version it signed up on.  (A version with
\* the meter of the one before is none here.)
EditPrice(s) ==
  /\ \E m \in MetersOf[s] \ {offer[s]} : offer' = [offer EXCEPT ![s] = m]
  /\ Upset(s, sub[s])
  /\ moved' = moved \cup {s}
  /\ UNCHANGED <<active, rebased>>

\* changePlan, at once: onto another metered price, whose usage so far is nobody's line.
ChangePlan(s) ==
  /\ sub[s].status # "CANCELED"
  /\ \E m \in MetersOf[s] \ {sub[s].meter} :
       /\ Upset(s, [sub[s] EXCEPT !.meter = m])
       /\ offer' = [offer EXCEPT ![s] = m]
  /\ moved' = moved \cup {s}
  /\ UNCHANGED <<active, rebased>>

\* updateMeter: archived, or restored.
SwitchMeter(m) ==
  /\ upsets < MaxUpsets
  /\ active' = IF m \in active THEN active \ {m} ELSE active \cup {m}
  /\ upsets' = upsets + 1
  /\ UNCHANGED <<now, payment, event, sub, offer, moved, pass, renewal, bills, rebased>>

Tick ==
  /\ now < Horizon
  /\ now' = now + 1
  /\ UNCHANGED <<payment, event, sub, prices, pass, renewal, bills, upsets, rebased>>

---------------------------------------------------------------------------
(* The scheduled pass: the enrolments, the settled payments of the last day, *)
(* and one insert that skips the keys it meets.                              *)

PassReads ==
  /\ ~pass.reading
  /\ \E s \in Enrolments :
       /\ FirstSeen(s)
       /\ pass' = [reading |-> TRUE, onto |-> sub[s].meter,
                   rows |-> VolumeIn(IF now > Lookback THEN now - Lookback ELSE 0, now)]
  /\ UNCHANGED <<now, payment, event, sub, prices, renewal, bills, upsets, rebased>>

Written(rows, meter) ==
  [k \in Keys |-> IF k \in rows /\ ~Recorded(k)
                  THEN [meter |-> meter, at |-> payment[k].paidAt] ELSE event[k]]

PassWrites ==
  /\ pass.reading
  /\ \A p \in pass.rows : ~Held(p)
  /\ event' = Written(pass.rows, pass.onto)
  /\ pass' = NoPass
  /\ UNCHANGED <<now, payment, sub, prices, renewal, bills, upsets, rebased>>

PassDies ==
  /\ pass.reading /\ upsets < MaxUpsets
  /\ pass' = NoPass
  /\ upsets' = upsets + 1
  /\ UNCHANGED <<now, payment, event, sub, prices, renewal, bills, rebased>>

---------------------------------------------------------------------------
(* renewSubscription, of which the usage it invoices. *)

\* The price it bills is the row's, or the newest version when it may roll forward.
BeginRenewal(s) ==
  /\ renewal[s].stage = "idle"
  /\ \E rolls \in BOOLEAN :
       /\ rolls => offer[s] # sub[s].meter
       /\ renewal' = [renewal EXCEPT ![s] = [NoRenewal EXCEPT
            !.stage = "begun", !.start = sub[s].start, !.end = sub[s].end,
            !.meter = IF rolls THEN offer[s] ELSE sub[s].meter, !.rolls = rolls,
            !.known = VolumeIn(sub[s].start, sub[s].end)]]
  /\ UNCHANGED <<now, payment, event, sub, prices, pass, bills, rebased>>

\* onlyWhenDue
SweepRenews(s) ==
  /\ sub[s].status = "ACTIVE" /\ sub[s].end <= now
  /\ BeginRenewal(s)
  /\ UNCHANGED upsets

\* POST /renew, due or not.
RequestRenews(s) ==
  /\ sub[s].status # "CANCELED" /\ upsets < MaxUpsets
  /\ BeginRenewal(s)
  /\ upsets' = upsets + 1

FlushLookback(s) == VolumeIn(IF now > Lookback THEN now - Lookback ELSE 0, renewal[s].end)
FlushWindow(s) == VolumeIn(renewal[s].start, renewal[s].end)

\* What it inserts is its own until it commits; the keys it meets it skips.  The meter
\* is that of the row's price as it is now, whichever version is billed.
Flush(s) ==
  LET meters == Canonical(s) /\ Meterable(s)
      rows == IF meters THEN FlushWindow(s) ELSE {}
      new == {p \in rows : ~Recorded(p)}
  IN /\ renewal[s].stage = "begun"
     /\ \A p \in rows : ~Held(p)
     /\ renewal' = [renewal EXCEPT ![s] = [@ EXCEPT !.stage = "flushed",
          !.known = IF meters THEN renewal[s].known ELSE {},
          !.onto = IF new = {} THEN "none" ELSE sub[s].meter, !.rows = new]]
     /\ UNCHANGED <<now, payment, event, sub, prices, pass, bills, upsets, rebased>>

\* getPeriodUsage, of the billed version's meter, which sums.
PeriodUsage(s) ==
  LET r == renewal[s]
      rows == Written(r.rows, r.onto)
  IN {k \in Keys : rows[k].meter = r.meter /\ InWindow(rows[k].at, r.start, r.end)}

\* The usage is read, the invoice issued, the period moved and the row put on the version
\* billed, whatever happened to the subscription since it was read.
CommitRenewal(s) ==
  /\ renewal[s].stage = "flushed"
  /\ LET r == renewal[s]
         counted == PeriodUsage(s)
         meter == IF r.rolls THEN r.meter ELSE sub[s].meter
     IN /\ bills' = bills \cup {[sub |-> s, meter |-> r.meter, start |-> r.start, end |-> r.end,
                                 charge |-> UsageCharge(Rating, Total(counted)),
                                 counted |-> counted, known |-> r.known]}
        /\ event' = Written(r.rows, r.onto)
        /\ sub' = [sub EXCEPT ![s] = [@ EXCEPT !.start = r.end, !.end = r.end + PeriodLength,
                                              !.meter = meter]]
  /\ renewal' = [renewal EXCEPT ![s] = NoRenewal]
  /\ UNCHANGED <<now, payment, prices, pass, upsets, rebased>>

\* A failed statement or the death of the process: the transaction rolls back.
RenewalFails(s) ==
  /\ renewal[s].stage # "idle" /\ upsets < MaxUpsets
  /\ renewal' = [renewal EXCEPT ![s] = NoRenewal]
  /\ upsets' = upsets + 1
  /\ UNCHANGED <<now, payment, event, sub, prices, pass, bills, rebased>>

---------------------------------------------------------------------------
(* trackUsage. *)

\* The event is dated by its sender.  A client that hears nothing sends it again, and
\* is told of a duplicate: by the look at the table before the insert or, of two calls
\* at once, by the unique key, which settles it.
Track(k) ==
  /\ ~Recorded(k) /\ Units[k] <= MaxUnits /\ MeterOf[k] \in active
  /\ \E at \in 0..now : event' = [event EXCEPT ![k] = [meter |-> MeterOf[k], at |-> at]]
  /\ UNCHANGED <<now, payment, sub, prices, pass, renewal, bills, upsets, rebased>>

---------------------------------------------------------------------------

Next ==
  \/ \E p \in Payments : Take(p) \/ Settle(p)
  \/ \E s \in Enrolments :
       \/ Lapse(s) \/ Cancel(s) \/ Recover(s)
       \/ EditPrice(s) \/ ChangePlan(s)
       \/ SweepRenews(s) \/ RequestRenews(s)
       \/ Flush(s) \/ CommitRenewal(s) \/ RenewalFails(s)
  \/ \E m \in Meters : SwitchMeter(m)
  \/ \E k \in Tracked : Track(k)
  \/ PassReads \/ PassWrites \/ PassDies
  \/ Tick

Spec == Init /\ [][Next]_vars

\* The worker runs the pass every fifteen minutes, and what a renewal began it ends;
\* the deaths of either stop in the end.
FairSpec ==
  /\ Spec
  /\ WF_vars(PassReads) /\ WF_vars(PassWrites)
  /\ \A s \in Enrolments : WF_vars(Flush(s) \/ CommitRenewal(s))

---------------------------------------------------------------------------

DistinctMeters ==
  \A s, t \in Enrolments : s # t => MetersOf[s] \cap MetersOf[t] = {}

\* However the pass, the flush and trackUsage overlap, and whichever
\* enrolment meters, what is counted is invoiced once: the periods invoiced follow
\* each other without an overlap, until a recovery from UNPAID moves one.  It takes
\* enrolments on meters of their own: on a shared one each bills all of it.
VolumeIsBilledOnce ==
  rebased \/ ~DistinctMeters
    \/ \A k \in Keys : Cardinality({b \in bills : k \in b.counted}) <= 1

OthersMeters(s) == UNION {MetersOf[t] : t \in Enrolments \ {s}}

\* platform-metering.ts:532-533: whatever the scheduled pass missed, the flush picks
\* up, so an invoice whose renewal flushed leaves out nothing that had been recorded
\* as settled in its period when its transaction began, unless an event of it is on
\* another meter: another enrolment's, or, once its price was given another meter,
\* one of its own versions', where the code leaves it off the invoice.
FlushMissesNothing ==
  \A b \in bills, p \in Payments :
    p \in b.known =>
      \/ p \in b.counted
      \/ /\ event[p].meter \in Meters \ {b.meter}
         /\ b.sub \in moved \/ event[p].meter \in OthersMeters(b.sub)

\* platform-metering.ts:423-429 and :252-255 give the flush as what keeps a payment
\* from landing "in a period that has already been billed and be owed forever
\* without ever appearing on an invoice", also one that "settles at 23:58 on the last
\* day of a period" and is resolved at 00:05.
NothingLandsInABilledPeriod ==
  \A b \in bills, k \in Keys :
    event[k].meter = b.meter /\ InWindow(event[k].at, b.start, b.end) => k \in b.counted

\* A settled payment within the pass's reach is metered in the end, lapsed or not, or
\* by then the merchant has no enrolment on a meter in use or it is out of reach.
Reachable(p) ==
  Settled(p) /\ Countable(p) /\ InWindow(payment[p].paidAt, now - Lookback, now)

SettledIsMetered ==
  \A p \in Payments :
    Reachable(p) ~>
      \/ Recorded(p)
      \/ ~Reachable(p)
      \/ \A s \in Enrolments : sub[s].status = "CANCELED" \/ sub[s].meter \notin active
============================================================================
