--------------------------- MODULE MeteringProofs ---------------------------
(***************************************************************************)
(* What Metering invoices, for any number of payments, events, enrolments, *)
(* periods and upsets: nothing twice, and nothing the flush was to pick up *)
(* is left out.  The invariant says that an event once written stays as it *)
(* is, dated by its payment, and that a renewal in flight still has the    *)
(* period of the row and a row of its own for what it has to bill, and     *)
(* that until its price is given another meter an enrolment has one meter: *)
(* the row's, the newest version's, and that of what it writes.  Then      *)
(* what a bill amounts to: totals as sums over finite sets, blocks, caps,  *)
(* and the types of the specification, which rest on them.                 *)
(***************************************************************************)
EXTENDS Metering, FiniteSetTheorems, TLAPS

PaymentRow == [status : {"PENDING", "TAKEN", "SUCCEEDED"}, paidAt : Nat]
EventRow == [meter : Meters \cup {"none"}, at : Nat]
SubRow == [status : {"ACTIVE", "UNPAID", "CANCELED"}, start : Nat, end : Nat, meter : Meters]
Renewing == [stage : {"idle", "begun", "flushed"}, start : Nat, end : Nat,
             meter : Meters \cup {"none"}, rolls : BOOLEAN, known : SUBSET Payments,
             onto : Meters \cup {"none"}, rows : SUBSET Payments]

Shape ==
  /\ now \in Nat /\ rebased \in BOOLEAN
  /\ payment \in [Payments -> PaymentRow]
  /\ event \in [Keys -> EventRow]
  /\ sub \in [Enrolments -> SubRow] /\ \A s \in Enrolments : sub[s].start < sub[s].end
  /\ offer \in [Enrolments -> Meters] /\ active \subseteq Meters /\ moved \subseteq Enrolments
  /\ \A s \in Enrolments : sub[s].meter \in MetersOf[s] /\ offer[s] \in MetersOf[s]
  /\ pass.reading => pass.onto \in Meters /\ pass.rows \subseteq Payments
  /\ renewal \in [Enrolments -> Renewing]
  /\ \A b \in bills : /\ b.sub \in Enrolments /\ b.start \in Nat /\ b.end \in Nat
                      /\ b.meter \in MetersOf[b.sub]

\* Of a price of s, and of the only one it has been on unless it has moved.
ItsMeter(s, meter) == meter \in MetersOf[s] /\ (s \notin moved => meter = sub[s].meter)

\* What is written is written on the meter of an enrolment.
OnItsMeter ==
  /\ \A s \in Enrolments :
       /\ ItsMeter(s, offer[s])
       /\ renewal[s].stage # "idle" => ItsMeter(s, renewal[s].meter)
       /\ renewal[s].stage # "idle" /\ renewal[s].rows # {} => ItsMeter(s, renewal[s].onto)
  /\ pass.reading => \E s \in Enrolments : ItsMeter(s, pass.onto)
  /\ \A p \in Payments : Recorded(p) => \E s \in Enrolments : ItsMeter(s, event[p].meter)

\* Whoever holds rows to write holds settled payments, and an event of one is dated by it.
OnlySettledIsWritten ==
  /\ pass.reading => \A p \in pass.rows : Settled(p)
  /\ \A s \in Enrolments :
       renewal[s].stage = "flushed" => \A p \in renewal[s].rows : Settled(p)
  /\ \A p \in Payments :
       Recorded(p) => Settled(p) /\ event[p].at = payment[p].paidAt

\* What a renewal knows of was settled in its period, and after the flush there is an event.
KnownIsWritten ==
  \A s \in Enrolments : renewal[s].stage # "idle" =>
    \A p \in renewal[s].known :
      /\ Settled(p) /\ InWindow(payment[p].paidAt, renewal[s].start, renewal[s].end)
      /\ Countable(p)
      /\ renewal[s].stage = "flushed" => p \in renewal[s].rows \/ Recorded(p)

\* Until a recovery moves it, the period a renewal read is the row's.
RenewsTheRow ==
  ~rebased => \A s \in Enrolments : renewal[s].stage # "idle" =>
    renewal[s].start = sub[s].start /\ renewal[s].end = sub[s].end

BillsAreBehind == ~rebased => \A b \in bills : b.end <= sub[b.sub].start

CountedIsDated ==
  \A b \in bills : \A k \in b.counted :
    /\ k \in Keys /\ event[k].meter = b.meter
    /\ InWindow(event[k].at, b.start, b.end)

CountedOnce ==
  ~rebased /\ DistinctMeters =>
    \A b, c \in bills : \A k \in b.counted : k \in c.counted => b = c

KnownIsPayments == \A b \in bills : b.known \subseteq Payments

\* Where the event of a payment the bill leaves out is.
Elsewhere(b, meter) ==
  meter \in Meters \ {b.meter} /\ (b.sub \in moved \/ meter \in OthersMeters(b.sub))

IInv ==
  /\ Shape /\ OnItsMeter /\ OnlySettledIsWritten /\ KnownIsWritten /\ RenewsTheRow /\ BillsAreBehind
  /\ CountedIsDated /\ CountedOnce /\ KnownIsPayments /\ FlushMissesNothing

LEMMA Keyed ==
  /\ Payments \subseteq Keys /\ Tracked \subseteq Keys /\ "none" \notin Meters
  /\ \A s \in Enrolments : MetersOf[s] \subseteq Meters
  BY MeteringAssumption DEF Keys, Meters

LEMMA InitInv == Init => IInv
<1> SUFFICES ASSUME Init PROVE IInv
  OBVIOUS
<1> USE DEF Init
<1>1. ~NoPass.reading
  BY DEF NoPass
<1>2. NoRenewal \in Renewing /\ NoRenewal.stage = "idle"
  BY DEF NoRenewal, Renewing
<1>3. NoEvent \in EventRow /\ NoEvent.meter = "none"
  BY DEF NoEvent, EventRow
<1>4. Shape
  <2>1. [status |-> "PENDING", paidAt |-> 0] \in PaymentRow
    BY DEF PaymentRow
  <2>2. \A s \in Enrolments :
          LET row == [status |-> "ACTIVE", start |-> 0, end |-> PeriodLength, meter |-> FirstMeter[s]]
          IN row \in SubRow /\ row.start < row.end /\ row.meter \in MetersOf[s]
    BY MeteringAssumption DEF SubRow
  <2>3. sub \in [Enrolments -> SubRow]
        /\ \A s \in Enrolments : sub[s].start < sub[s].end /\ sub[s].meter \in MetersOf[s]
    BY <2>2
  <2>4. /\ offer \in [Enrolments -> Meters] /\ active \subseteq Meters /\ moved \subseteq Enrolments
        /\ \A s \in Enrolments : offer[s] \in MetersOf[s]
    BY MeteringAssumption
  <2> QED
    BY <1>1, <1>2, <1>3, <2>1, <2>3, <2>4 DEF Shape
<1>5. OnlySettledIsWritten /\ KnownIsWritten /\ RenewsTheRow
  BY <1>1, <1>2, <1>3, Keyed DEF OnlySettledIsWritten, KnownIsWritten, RenewsTheRow, Recorded
<1>6. BillsAreBehind /\ CountedIsDated /\ CountedOnce /\ KnownIsPayments /\ FlushMissesNothing
  BY DEF BillsAreBehind, CountedIsDated, CountedOnce, KnownIsPayments, FlushMissesNothing
<1>7. OnItsMeter
  <2>1. \A s \in Enrolments : ItsMeter(s, offer[s]) /\ renewal[s].stage = "idle"
    BY <1>2, MeteringAssumption DEF ItsMeter
  <2>2. \A p \in Payments : ~Recorded(p)
    BY <1>3, Keyed DEF Recorded
  <2> QED
    BY <1>1, <2>1, <2>2 DEF OnItsMeter
<1> QED
  BY <1>4, <1>5, <1>6, <1>7 DEF IInv

-----------------------------------------------------------------------------
(* Payments, the rows of the subscriptions, and the prices. *)

\* What the prices do to the meters in flight.
LEMMA MetersKept ==
  ASSUME IInv, moved \subseteq moved', UNCHANGED <<event, pass, renewal>>,
         \A s \in Enrolments \ moved' : sub'[s].meter = sub[s].meter /\ offer'[s] = offer[s],
         \A s \in Enrolments : offer'[s] \in MetersOf[s]
  PROVE  OnItsMeter'
<1>1. \A s \in Enrolments : ItsMeter(s, offer[s])'
  BY DEF IInv, OnItsMeter, ItsMeter
<1>3. ASSUME NEW s \in Enrolments, renewal[s].stage # "idle"
      PROVE  /\ ItsMeter(s, renewal[s].meter)'
             /\ renewal[s].rows # {} => ItsMeter(s, renewal[s].onto)'
  <2>1. /\ ItsMeter(s, renewal[s].meter)
        /\ renewal[s].rows # {} => ItsMeter(s, renewal[s].onto)
    BY <1>3 DEF IInv, OnItsMeter
  <2> QED
    BY <2>1 DEF ItsMeter
<1>4. ASSUME pass.reading PROVE \E s \in Enrolments : ItsMeter(s, pass.onto)'
  <2>1. PICK s \in Enrolments : ItsMeter(s, pass.onto)
    BY <1>4 DEF IInv, OnItsMeter
  <2> QED
    BY <2>1 DEF ItsMeter
<1>5. ASSUME NEW p \in Payments, Recorded(p) PROVE \E s \in Enrolments : ItsMeter(s, event[p].meter)'
  <2>1. PICK s \in Enrolments : ItsMeter(s, event[p].meter)
    BY <1>5 DEF IInv, OnItsMeter
  <2> QED
    BY <2>1 DEF ItsMeter
<1> QED
  BY <1>1, <1>3, <1>4, <1>5 DEF OnItsMeter, Recorded

\* A settled payment stays so and keeps its date.
LEMMA PaymentInv ==
  ASSUME IInv, NEW p \in Payments, Take(p) \/ Settle(p) PROVE IInv'
<1>1. /\ payment' \in [Payments -> PaymentRow]
      /\ \A q \in Payments : Settled(q) => Settled(q)' /\ payment'[q].paidAt = payment[q].paidAt
  <2>1. CASE Take(p)
    BY <2>1 DEF Take, Settled, IInv, Shape, PaymentRow
  <2>2. CASE Settle(p)
    <3>1. \A r \in PaymentRow : [r EXCEPT !.status = "SUCCEEDED"] \in PaymentRow
          /\ [r EXCEPT !.status = "SUCCEEDED"].paidAt = r.paidAt
          /\ [r EXCEPT !.status = "SUCCEEDED"].status = "SUCCEEDED"
      BY DEF PaymentRow
    <3> QED
      BY <2>2, <3>1 DEF Settle, Settled, IInv, Shape
  <2> QED
    BY <2>1, <2>2
<1>2. UNCHANGED <<now, event, sub, offer, active, moved, pass, renewal, bills, upsets, rebased>>
  BY DEF Take, Settle, prices
<1>3. Shape'
  BY <1>1, <1>2 DEF IInv, Shape
<1>4. OnlySettledIsWritten'
  <2>1. /\ pass.reading => pass.rows \subseteq Payments
        /\ \A s \in Enrolments : renewal[s].rows \subseteq Payments
    BY DEF IInv, Shape, Renewing
  <2>2. \A q \in Payments : Recorded(q)' <=> Recorded(q)
    BY <1>2 DEF Recorded
  <2> QED
    BY <1>1, <1>2, <2>1, <2>2 DEF IInv, OnlySettledIsWritten
<1>5. KnownIsWritten'
  <2>1. \A s \in Enrolments : renewal[s].known \subseteq Payments
    BY DEF IInv, Shape, Renewing
  <2> QED
    BY <1>1, <1>2, <2>1 DEF IInv, KnownIsWritten, Recorded, Countable
<1>6. RenewsTheRow' /\ BillsAreBehind' /\ CountedIsDated' /\ CountedOnce' /\ KnownIsPayments'
  BY <1>2 DEF IInv, RenewsTheRow, BillsAreBehind, CountedIsDated, CountedOnce, KnownIsPayments
<1>7. FlushMissesNothing'
  BY <1>2 DEF IInv, FlushMissesNothing
<1>8. OnItsMeter'
  BY <1>2, MetersKept DEF IInv, Shape
<1> QED
  BY <1>3, <1>4, <1>5, <1>6, <1>7, <1>8 DEF IInv

\* The row keeps its period, or a recovery has been noted.
LEMMA RowInv ==
  ASSUME IInv, sub' \in [Enrolments -> SubRow], now' \in Nat, rebased' \in BOOLEAN,
         rebased => rebased', \A s \in Enrolments : sub'[s].start < sub'[s].end,
         ~rebased' => \A s \in Enrolments : sub'[s].start = sub[s].start /\ sub'[s].end = sub[s].end,
         offer' \in [Enrolments -> Meters], active' \subseteq Meters,
         moved \subseteq moved', moved' \subseteq Enrolments,
         \A s \in Enrolments : sub'[s].meter \in MetersOf[s] /\ offer'[s] \in MetersOf[s],
         \A s \in Enrolments \ moved' : sub'[s].meter = sub[s].meter /\ offer'[s] = offer[s],
         UNCHANGED <<payment, event, pass, renewal, bills>>
  PROVE  IInv'
<1>1. Shape'
  BY DEF IInv, Shape
<1>2. OnlySettledIsWritten' /\ KnownIsWritten'
  BY DEF IInv, OnlySettledIsWritten, KnownIsWritten, Recorded, Settled, Countable
<1>3. RenewsTheRow'
  BY DEF IInv, RenewsTheRow
<1>4. BillsAreBehind'
  BY DEF IInv, Shape, BillsAreBehind
<1>5. CountedIsDated' /\ CountedOnce' /\ KnownIsPayments' /\ FlushMissesNothing'
  BY DEF IInv, CountedIsDated, CountedOnce, KnownIsPayments, FlushMissesNothing
<1>6. OnItsMeter'
  BY MetersKept
<1> QED
  BY <1>1, <1>2, <1>3, <1>4, <1>5, <1>6 DEF IInv

\* Its price stays as it is.
LEMMA UpsetInv ==
  ASSUME IInv, NEW s \in Enrolments, Lapse(s) \/ Cancel(s) \/ Recover(s) PROVE IInv'
<1>1. \A r \in SubRow, st \in {"UNPAID", "CANCELED"} :
        LET n == [r EXCEPT !.status = st]
        IN n \in SubRow /\ n.start = r.start /\ n.end = r.end /\ n.meter = r.meter
  BY DEF SubRow
<1>2. /\ sub \in [Enrolments -> SubRow] /\ now \in Nat /\ rebased \in BOOLEAN
      /\ offer \in [Enrolments -> Meters] /\ active \subseteq Meters /\ moved \subseteq Enrolments
      /\ \A t \in Enrolments : /\ sub[t].start < sub[t].end
                              /\ sub[t].meter \in MetersOf[t] /\ offer[t] \in MetersOf[t]
  BY DEF IInv, Shape
<1>3. CASE Lapse(s)
  <2>1. sub' = [sub EXCEPT ![s] = [sub[s] EXCEPT !.status = "UNPAID"]]
        /\ UNCHANGED <<now, payment, event, offer, active, moved, pass, renewal, bills, rebased>>
    BY <1>3 DEF Lapse, Upset, prices
  <2> QED
    BY <1>1, <1>2, <2>1, RowInv
<1>4. CASE Cancel(s)
  <2>1. sub' = [sub EXCEPT ![s] = [sub[s] EXCEPT !.status = "CANCELED"]]
        /\ UNCHANGED <<now, payment, event, offer, active, moved, pass, renewal, bills, rebased>>
    BY <1>4 DEF Cancel, Upset, prices
  <2> QED
    BY <1>1, <1>2, <2>1, RowInv
<1>5. CASE Recover(s)
  <2> DEFINE row == [sub[s] EXCEPT !.status = "ACTIVE", !.start = now, !.end = now + PeriodLength]
  <2>1. /\ sub' = [sub EXCEPT ![s] = row]
        /\ rebased' /\ rebased' \in BOOLEAN
        /\ UNCHANGED <<now, payment, event, offer, active, moved, pass, renewal, bills>>
    BY <1>5 DEF Recover, Upset, prices
  <2>2. /\ row \in SubRow /\ row.start < row.end /\ row.meter = sub[s].meter
    <3>2. now + PeriodLength \in Nat /\ now < now + PeriodLength
      BY <1>2, MeteringAssumption
    <3>3. PICK r \in SubRow, n \in Nat, m \in Nat :
            r = sub[s] /\ n = now /\ m = now + PeriodLength /\ n < m
      BY <1>2, <3>2
    <3>4. row = [r EXCEPT !.status = "ACTIVE", !.start = n, !.end = m]
      BY <3>3
    <3> HIDE DEF row
    <3>5. /\ [r EXCEPT !.status = "ACTIVE", !.start = n, !.end = m] \in SubRow
          /\ [r EXCEPT !.status = "ACTIVE", !.start = n, !.end = m].start = n
          /\ [r EXCEPT !.status = "ACTIVE", !.start = n, !.end = m].end = m
          /\ [r EXCEPT !.status = "ACTIVE", !.start = n, !.end = m].meter = r.meter
      BY DEF SubRow
    <3> QED
      BY <3>3, <3>4, <3>5
  <2> HIDE DEF row
  <2> QED
    BY <1>2, <2>1, <2>2, RowInv
<1> QED
  BY <1>3, <1>4, <1>5

\* A price is edited or changed, or a meter archived or restored.
LEMMA PriceInv ==
  ASSUME IInv,
         \/ \E s \in Enrolments : EditPrice(s) \/ ChangePlan(s)
         \/ \E m \in Meters : SwitchMeter(m)
  PROVE  IInv'
<1>1. /\ sub \in [Enrolments -> SubRow] /\ now \in Nat /\ rebased \in BOOLEAN
      /\ offer \in [Enrolments -> Meters] /\ active \subseteq Meters /\ moved \subseteq Enrolments
      /\ \A t \in Enrolments : /\ sub[t].start < sub[t].end
                              /\ sub[t].meter \in MetersOf[t] /\ offer[t] \in MetersOf[t]
  BY DEF IInv, Shape
<1>2. ASSUME NEW s \in Enrolments, EditPrice(s) PROVE IInv'
  <2>1. PICK m \in MetersOf[s] : offer' = [offer EXCEPT ![s] = m]
    BY <1>2 DEF EditPrice
  <2>2. /\ sub' = sub /\ moved' = moved \cup {s}
        /\ UNCHANGED <<now, payment, event, active, pass, renewal, bills, rebased>>
    BY <1>1, <1>2 DEF EditPrice, Upset
  <2> QED
    BY <1>1, <2>1, <2>2, Keyed, RowInv
<1>3. ASSUME NEW s \in Enrolments, ChangePlan(s) PROVE IInv'
  <2>1. PICK m \in MetersOf[s] :
          sub' = [sub EXCEPT ![s] = [sub[s] EXCEPT !.meter = m]] /\ offer' = [offer EXCEPT ![s] = m]
    BY <1>3 DEF ChangePlan, Upset
  <2>2. /\ moved' = moved \cup {s}
        /\ UNCHANGED <<now, payment, event, active, pass, renewal, bills, rebased>>
    BY <1>3 DEF ChangePlan, Upset
  <2>3. m \in Meters
    BY <2>1, Keyed
  <2>4. \A r \in SubRow :
          LET new == [r EXCEPT !.meter = m]
          IN new \in SubRow /\ new.start = r.start /\ new.end = r.end /\ new.meter = m
    BY <2>3 DEF SubRow
  <2> QED
    BY <1>1, <2>1, <2>2, <2>3, <2>4, RowInv
<1>4. ASSUME NEW m \in Meters, SwitchMeter(m) PROVE IInv'
  <2>1. /\ active' \subseteq Meters
        /\ UNCHANGED <<now, payment, event, sub, offer, moved, pass, renewal, bills, rebased>>
    BY <1>1, <1>4 DEF SwitchMeter
  <2> QED
    BY <1>1, <2>1, RowInv
<1> QED
  BY <1>2, <1>3, <1>4

-----------------------------------------------------------------------------
(* Events are written. *)

\* What is written is dated by its payment, and what was recorded is left alone.
LEMMA WrittenLeaves ==
  ASSUME Shape, NEW rows \in SUBSET Payments, NEW meter, rows # {} => meter \in Meters
  PROVE  /\ Written(rows, meter) \in [Keys -> EventRow]
         /\ \A k \in Keys : Recorded(k) \/ k \notin rows => Written(rows, meter)[k] = event[k]
         /\ \A k \in rows : ~Recorded(k) =>
              Written(rows, meter)[k].meter = meter /\ Written(rows, meter)[k].at = payment[k].paidAt
<1>1. \A k \in rows : [meter |-> meter, at |-> payment[k].paidAt] \in EventRow
  BY DEF Shape, PaymentRow, EventRow
<1>2. event \in [Keys -> EventRow]
  BY DEF Shape
<1> QED
  BY <1>1, <1>2, Keyed DEF Written

\* What the bills say stays true when what is recorded stays.
LEMMA EventsKeep ==
  ASSUME IInv, \A k \in Keys : Recorded(k) => event'[k] = event[k], moved' = moved, NEW b \in bills
  PROVE  /\ \A k \in b.counted : /\ k \in Keys /\ event'[k].meter = b.meter
                                 /\ InWindow(event'[k].at, b.start, b.end)
         /\ \A p \in Payments :
              p \in b.known => p \in b.counted \/ Elsewhere(b, event[p].meter)
         /\ \A p \in Payments :
              p \in b.known => p \in b.counted \/ Elsewhere(b, event'[p].meter)
<1>1. ASSUME NEW k \in b.counted
      PROVE  /\ k \in Keys /\ event'[k].meter = b.meter
             /\ InWindow(event'[k].at, b.start, b.end)
  <2>1. k \in Keys /\ event[k].meter = b.meter /\ InWindow(event[k].at, b.start, b.end)
    BY DEF IInv, CountedIsDated
  <2>2. Recorded(k)
    BY <2>1, Keyed DEF Recorded, IInv, Shape
  <2> QED
    BY <2>1, <2>2
<1>2. ASSUME NEW p \in Payments, p \in b.known, p \notin b.counted
      PROVE  Elsewhere(b, event[p].meter) /\ Elsewhere(b, event'[p].meter)
  <2>1. Elsewhere(b, event[p].meter)
    BY <1>2 DEF IInv, FlushMissesNothing, Elsewhere
  <2>2. Recorded(p) /\ p \in Keys
    BY <2>1, Keyed DEF Recorded, Elsewhere
  <2> QED
    BY <2>1, <2>2
<1> QED
  BY <1>1, <1>2

LEMMA BillsKeep ==
  ASSUME IInv, \A k \in Keys : Recorded(k) => event'[k] = event[k],
         UNCHANGED <<bills, sub, moved, rebased>>
  PROVE  /\ BillsAreBehind' /\ CountedIsDated' /\ CountedOnce' /\ KnownIsPayments'
         /\ FlushMissesNothing'
<1>1. BillsAreBehind' /\ CountedOnce' /\ KnownIsPayments'
  BY DEF IInv, BillsAreBehind, CountedOnce, KnownIsPayments
<1>2. CountedIsDated' /\ FlushMissesNothing'
  BY EventsKeep DEF CountedIsDated, FlushMissesNothing, InWindow, Elsewhere
<1> QED
  BY <1>1, <1>2

\* The events of payments stay on the meters of enrolments.
LEMMA EventsOnMeters ==
  ASSUME IInv, moved' = moved,
         \A s \in Enrolments \ moved : sub'[s].meter = sub[s].meter,
         \A p \in Payments :
           \/ event'[p] = event[p]
           \/ \E s \in Enrolments : ItsMeter(s, event'[p].meter),
         NEW p \in Payments, Recorded(p)'
  PROVE  \E s \in Enrolments : ItsMeter(s, event[p].meter)'
<1>1. \E s \in Enrolments : ItsMeter(s, event'[p].meter)
  <2>1. CASE event'[p] = event[p]
    BY <2>1 DEF IInv, OnItsMeter, Recorded
  <2>2. CASE event'[p] # event[p]
    BY <2>2
  <2> QED
    BY <2>1, <2>2
<1>2. PICK s \in Enrolments : ItsMeter(s, event'[p].meter)
  BY <1>1
<1> QED
  BY <1>2 DEF ItsMeter

LEMMA PassInv ==
  ASSUME IInv, PassReads \/ PassWrites \/ PassDies PROVE IInv'
<1>1. CASE PassReads \/ PassDies
  <2>1. /\ UNCHANGED <<now, payment, event, sub, offer, active, moved, renewal, bills, rebased>>
        /\ pass'.reading =>
             /\ pass'.rows \subseteq Payments
             /\ \A p \in pass'.rows : Settled(p)
             /\ \E s \in Enrolments : pass'.onto = sub[s].meter
    BY <1>1 DEF PassReads, PassDies, NoPass, VolumeIn, prices
  <2>0. /\ \A s \in Enrolments : ItsMeter(s, sub[s].meter) /\ sub[s].meter \in Meters
    BY Keyed DEF IInv, Shape, ItsMeter
  <2>2. Shape'
    BY <2>0, <2>1 DEF IInv, Shape
  <2>4. OnItsMeter'
    BY <2>0, <2>1 DEF IInv, OnItsMeter, ItsMeter, Recorded
  <2>3. OnlySettledIsWritten' /\ KnownIsWritten' /\ RenewsTheRow'
    BY <2>1
    DEF IInv, OnlySettledIsWritten, KnownIsWritten, RenewsTheRow, Recorded, Settled, Countable
  <2> QED
    BY <2>1, <2>2, <2>3, <2>4, BillsKeep DEF IInv
<1>2. CASE PassWrites
  <2>1. /\ pass.reading /\ event' = Written(pass.rows, pass.onto) /\ ~pass'.reading
        /\ pass.rows \in SUBSET Payments /\ pass.onto \in Meters
        /\ UNCHANGED <<now, payment, sub, offer, active, moved, renewal, bills, rebased>>
    BY <1>2 DEF PassWrites, NoPass, IInv, Shape, prices
  <2>2. /\ event' \in [Keys -> EventRow]
        /\ \A k \in Keys : Recorded(k) \/ k \notin pass.rows => event'[k] = event[k]
        /\ \A k \in pass.rows : ~Recorded(k) => /\ event'[k].at = payment[k].paidAt
                                                /\ event'[k].meter = pass.onto
    <3> DEFINE rows == pass.rows
               onto == pass.onto
    <3>1. event' = Written(rows, onto) /\ rows \in SUBSET Payments /\ onto \in Meters
      BY <2>1
    <3> HIDE DEF rows, onto
    <3>2. Shape
      BY DEF IInv
    <3>3. /\ event' \in [Keys -> EventRow]
          /\ \A k \in Keys : Recorded(k) \/ k \notin rows => event'[k] = event[k]
          /\ \A k \in rows : ~Recorded(k) =>
               event'[k].meter = onto /\ event'[k].at = payment[k].paidAt
      <4>1. /\ Written(rows, onto) \in [Keys -> EventRow]
            /\ \A k \in Keys : Recorded(k) \/ k \notin rows => Written(rows, onto)[k] = event[k]
            /\ \A k \in rows : ~Recorded(k) =>
                 Written(rows, onto)[k].meter = onto /\ Written(rows, onto)[k].at = payment[k].paidAt
        BY <3>1, <3>2, WrittenLeaves
      <4> QED
        BY <3>1, <4>1
    <3> QED
      BY <3>3 DEF rows, onto
  <2>3. Shape'
    BY <2>1, <2>2 DEF IInv, Shape
  <2>4. \A k \in Keys : Recorded(k) => Recorded(k)'
    BY <2>2 DEF Recorded
  <2>5. OnlySettledIsWritten'
    <3>1. \A p \in Payments : Recorded(p)' => Settled(p) /\ event'[p].at = payment[p].paidAt
      <4> SUFFICES ASSUME NEW p \in Payments, Recorded(p)'
                   PROVE  Settled(p) /\ event'[p].at = payment[p].paidAt
        OBVIOUS
      <4>1. CASE Recorded(p) \/ p \notin pass.rows
        <5>1. event'[p] = event[p]
          BY <2>2, <4>1, Keyed
        <5>2. Recorded(p)
          BY <5>1 DEF Recorded
        <5> QED
          BY <5>1, <5>2 DEF IInv, OnlySettledIsWritten
      <4>2. CASE p \in pass.rows /\ ~Recorded(p)
        BY <2>1, <2>2, <4>2 DEF IInv, OnlySettledIsWritten
      <4> QED
        BY <4>1, <4>2
    <3> QED
      BY <2>1, <3>1 DEF IInv, OnlySettledIsWritten, Settled
  <2>6. KnownIsWritten'
    <3>1. \A s \in Enrolments : renewal[s].known \subseteq Keys
      BY Keyed DEF IInv, Shape, Renewing
    <3> QED
      BY <2>1, <2>4, <3>1 DEF IInv, KnownIsWritten, Settled, Countable
  <2>7. RenewsTheRow'
    BY <2>1 DEF IInv, RenewsTheRow
  <2>8. OnItsMeter'
    <3>1. \E s \in Enrolments : ItsMeter(s, pass.onto)
      BY <2>1 DEF IInv, OnItsMeter
    <3>2. \A p \in Payments :
            event'[p] = event[p] \/ \E s \in Enrolments : ItsMeter(s, event'[p].meter)
      BY <2>1, <2>2, <3>1, Keyed
    <3>3. \A p \in Payments : Recorded(p)' => \E s \in Enrolments : ItsMeter(s, event[p].meter)'
      BY <2>1, <3>2, EventsOnMeters
    <3> QED
      BY <2>1, <3>3 DEF IInv, OnItsMeter, ItsMeter
  <2> QED
    BY <2>1, <2>2, <2>3, <2>5, <2>6, <2>7, <2>8, BillsKeep DEF IInv
<1> QED
  BY <1>1, <1>2

\* An event of the application is none of a payment's.
LEMMA TrackInv ==
  ASSUME IInv, NEW k \in Tracked, Track(k) PROVE IInv'
<1>0. 0..now \subseteq Nat
  BY DEF IInv, Shape
<1>1. PICK at \in Nat : event' = [event EXCEPT ![k] = [meter |-> MeterOf[k], at |-> at]]
  BY <1>0 DEF Track
<1>2. /\ ~Recorded(k)
      /\ UNCHANGED <<now, payment, sub, offer, active, moved, pass, renewal, bills, rebased>>
  BY DEF Track, prices
<1>3. [meter |-> MeterOf[k], at |-> at] \in EventRow
  BY MeteringAssumption DEF EventRow
<1>4. /\ event' \in [Keys -> EventRow] /\ k \notin Payments
      /\ \A l \in Keys : l # k => event'[l] = event[l]
  BY <1>1, <1>3, Keyed, MeteringAssumption DEF IInv, Shape
<1>5. \A l \in Keys : Recorded(l) => event'[l] = event[l]
  BY <1>2, <1>4
<1>6. \A p \in Payments : event'[p] = event[p] /\ (Recorded(p)' <=> Recorded(p))
  BY <1>4, Keyed DEF Recorded
<1>7. Shape'
  BY <1>2, <1>4 DEF IInv, Shape
<1>8. OnlySettledIsWritten'
  BY <1>2, <1>6 DEF IInv, OnlySettledIsWritten, Settled
<1>9. KnownIsWritten' /\ RenewsTheRow'
  <2>1. \A s \in Enrolments : renewal[s].known \subseteq Payments
    BY DEF IInv, Shape, Renewing
  <2> QED
    BY <1>2, <1>6, <2>1 DEF IInv, KnownIsWritten, RenewsTheRow, Settled, Countable
<1>10. OnItsMeter'
  <2>1. \A p \in Payments : Recorded(p)' => \E s \in Enrolments : ItsMeter(s, event[p].meter)'
    BY <1>2, <1>6, EventsOnMeters
  <2> QED
    BY <1>2, <2>1 DEF IInv, OnItsMeter, ItsMeter
<1> QED
  BY <1>2, <1>5, <1>7, <1>8, <1>9, <1>10, BillsKeep DEF IInv

-----------------------------------------------------------------------------
(* Renewals. *)

\* A renewal goes a step on: of its own row alone, with what the invariant asks of it.
LEMMA RenewalStepInv ==
  ASSUME IInv, NEW s \in Enrolments, NEW new \in Renewing,
         renewal' = [renewal EXCEPT ![s] = new],
         UNCHANGED <<now, payment, event, sub, offer, active, moved, pass, bills, rebased>>,
         new.stage = "flushed" => \A p \in new.rows : Settled(p),
         new.stage # "idle" =>
           /\ ItsMeter(s, new.meter) /\ (new.rows # {} => ItsMeter(s, new.onto))
           /\ ~rebased => new.start = sub[s].start /\ new.end = sub[s].end
           /\ \A p \in new.known :
                /\ Settled(p) /\ InWindow(payment[p].paidAt, new.start, new.end) /\ Countable(p)
                /\ new.stage = "flushed" => p \in new.rows \/ Recorded(p)
  PROVE  IInv'
<1>1. /\ renewal' \in [Enrolments -> Renewing] /\ renewal'[s] = new
      /\ \A t \in Enrolments \ {s} : renewal'[t] = renewal[t]
  BY DEF IInv, Shape
<1>2. Shape'
  BY <1>1 DEF IInv, Shape
<1>3. OnlySettledIsWritten'
  BY <1>1 DEF IInv, OnlySettledIsWritten, Recorded, Settled
<1>4. KnownIsWritten'
  BY <1>1 DEF IInv, KnownIsWritten, Recorded, Settled, Countable, InWindow
<1>5. RenewsTheRow'
  BY <1>1 DEF IInv, RenewsTheRow
<1>6. OnItsMeter'
  BY <1>1 DEF IInv, OnItsMeter, ItsMeter, Recorded
<1> QED
  BY <1>2, <1>3, <1>4, <1>5, <1>6, BillsKeep DEF IInv

LEMMA BeginInv ==
  ASSUME IInv, NEW s \in Enrolments, SweepRenews(s) \/ RequestRenews(s) \/ RenewalFails(s)
  PROVE  IInv'
<1>1. CASE SweepRenews(s) \/ RequestRenews(s)
  <2>0. PICK rolls \in BOOLEAN :
          renewal' = [renewal EXCEPT ![s] = [NoRenewal EXCEPT
            !.stage = "begun", !.start = sub[s].start, !.end = sub[s].end,
            !.meter = IF rolls THEN offer[s] ELSE sub[s].meter, !.rolls = rolls,
            !.known = VolumeIn(sub[s].start, sub[s].end)]]
    BY <1>1 DEF SweepRenews, RequestRenews, BeginRenewal
  <2> DEFINE meter == IF rolls THEN offer[s] ELSE sub[s].meter
             known == VolumeIn(sub[s].start, sub[s].end)
             new == [NoRenewal EXCEPT !.stage = "begun", !.start = sub[s].start, !.end = sub[s].end,
                                      !.meter = meter, !.rolls = rolls, !.known = known]
  <2>1. /\ renewal' = [renewal EXCEPT ![s] = new]
        /\ UNCHANGED <<now, payment, event, sub, offer, active, moved, pass, bills, rebased>>
    BY <1>1, <2>0 DEF SweepRenews, RequestRenews, BeginRenewal, prices
  <2>2. /\ sub[s].start \in Nat /\ sub[s].end \in Nat /\ known \in SUBSET Payments
        /\ meter \in Meters /\ ItsMeter(s, meter)
    <3>1. sub[s] \in SubRow /\ sub[s].meter \in MetersOf[s] /\ offer[s] \in MetersOf[s]
          /\ ItsMeter(s, offer[s])
      BY DEF IInv, Shape, OnItsMeter
    <3> QED
      BY <3>1, Keyed DEF SubRow, VolumeIn, ItsMeter
  <2> HIDE DEF meter, known
  <2>3. /\ new \in Renewing /\ new.stage = "begun" /\ new.start = sub[s].start
        /\ new.end = sub[s].end /\ new.meter = meter /\ new.known = known /\ new.rows = {}
    BY <2>2 DEF NoRenewal, Renewing
  <2> HIDE DEF new
  <2>4. \A p \in new.known : /\ Settled(p) /\ InWindow(payment[p].paidAt, new.start, new.end)
                             /\ Countable(p)
    BY <2>3 DEF VolumeIn, known
  <2> QED
    BY <2>1, <2>2, <2>3, <2>4, RenewalStepInv
<1>2. CASE RenewalFails(s)
  <2>1. NoRenewal \in Renewing /\ NoRenewal.stage = "idle"
    BY DEF NoRenewal, Renewing
  <2>2. /\ renewal' = [renewal EXCEPT ![s] = NoRenewal]
        /\ UNCHANGED <<now, payment, event, sub, offer, active, moved, pass, bills, rebased>>
    BY <1>2 DEF RenewalFails, prices
  <2> QED
    BY <2>1, <2>2, RenewalStepInv
<1> QED
  BY <1>1, <1>2

LEMMA FlushInv ==
  ASSUME IInv, NEW s \in Enrolments, Flush(s) PROVE IInv'
<1> DEFINE meters == Canonical(s) /\ Meterable(s)
           rows == {p \in (IF meters THEN FlushWindow(s) ELSE {}) : ~Recorded(p)}
           known == IF meters THEN renewal[s].known ELSE {}
           onto == IF rows = {} THEN "none" ELSE sub[s].meter
           new == [renewal[s] EXCEPT !.stage = "flushed", !.known = known, !.onto = onto,
                                     !.rows = rows]
<1>1. /\ renewal[s].stage = "begun" /\ renewal' = [renewal EXCEPT ![s] = new]
      /\ UNCHANGED <<now, payment, event, sub, offer, active, moved, pass, bills, rebased>>
  <2>1. renewal' = [renewal EXCEPT ![s] = new]
    BY Zenon DEF Flush
  <2> QED
    BY <2>1 DEF Flush, prices
<1>2. renewal[s] \in Renewing /\ renewal[s].known \in SUBSET Payments
  BY DEF IInv, Shape, Renewing
<1>3. known \in SUBSET Payments /\ rows \in SUBSET Payments
  BY <1>2 DEF FlushWindow, VolumeIn
<1>4. /\ \A p \in rows : Settled(p)
      /\ \A p \in known : p \in rows \/ Recorded(p)
      /\ known \subseteq renewal[s].known
  <2>1. \A p \in renewal[s].known : p \in FlushWindow(s)
    BY <1>1, <1>2 DEF FlushWindow, VolumeIn, IInv, KnownIsWritten
  <2> QED
    BY <2>1 DEF FlushWindow, VolumeIn
<1>8. /\ onto \in Meters \cup {"none"} /\ (rows # {} => ItsMeter(s, onto))
      /\ ItsMeter(s, renewal[s].meter)
  BY <1>1, Keyed DEF IInv, Shape, OnItsMeter, ItsMeter
<1> HIDE DEF meters, rows, known, onto
<1>5. /\ new \in Renewing /\ new.stage = "flushed" /\ new.known = known /\ new.rows = rows
      /\ new.start = renewal[s].start /\ new.end = renewal[s].end
      /\ new.meter = renewal[s].meter /\ new.onto = onto
  BY <1>2, <1>3, <1>8 DEF Renewing
<1> HIDE DEF new
<1>6. ~rebased => new.start = sub[s].start /\ new.end = sub[s].end
  BY <1>1, <1>5 DEF IInv, RenewsTheRow
<1>7. \A p \in new.known :
        Settled(p) /\ InWindow(payment[p].paidAt, new.start, new.end) /\ Countable(p)
  BY <1>1, <1>4, <1>5 DEF IInv, KnownIsWritten
<1> QED
  BY <1>1, <1>4, <1>5, <1>6, <1>7, <1>8, RenewalStepInv

\* The usage is read, the invoice issued and the period moved.
LEMMA CommitInv ==
  ASSUME IInv, NEW s \in Enrolments, CommitRenewal(s) PROVE IInv'
<1> DEFINE r == renewal[s]
           bill == [sub |-> s, meter |-> r.meter, start |-> r.start, end |-> r.end,
                    charge |-> UsageCharge(Rating, Total(PeriodUsage(s))),
                    counted |-> PeriodUsage(s), known |-> r.known]
           meter == IF r.rolls THEN r.meter ELSE sub[s].meter
           row == [sub[s] EXCEPT !.start = r.end, !.end = r.end + PeriodLength, !.meter = meter]
<1>1. /\ r.stage = "flushed" /\ bills' = bills \cup {bill} /\ event' = Written(r.rows, r.onto)
      /\ sub' = [sub EXCEPT ![s] = row] /\ renewal' = [renewal EXCEPT ![s] = NoRenewal]
      /\ UNCHANGED <<now, payment, offer, active, moved, pass, upsets, rebased>>
  <2>1. sub' = [sub EXCEPT ![s] = row]
    BY Zenon DEF CommitRenewal
  <2>2. bills' = bills \cup {bill} /\ event' = Written(r.rows, r.onto)
    BY Zenon DEF CommitRenewal
  <2> QED
    BY <2>1, <2>2 DEF CommitRenewal, prices
<1>2. /\ r.start \in Nat /\ r.end \in Nat /\ r.rows \in SUBSET Payments /\ r.known \in SUBSET Payments
      /\ r \in Renewing
  BY DEF IInv, Shape, Renewing
<1>20. /\ ItsMeter(s, r.meter) /\ (r.rows # {} => ItsMeter(s, r.onto))
       /\ r.meter \in MetersOf[s] /\ (r.rows # {} => r.onto \in Meters)
       /\ meter \in MetersOf[s] /\ meter \in Meters /\ (s \notin moved => meter = sub[s].meter)
  <2>1. ItsMeter(s, r.meter) /\ (r.rows # {} => ItsMeter(s, r.onto))
    BY <1>1 DEF IInv, OnItsMeter
  <2>2. sub[s].meter \in MetersOf[s]
    BY DEF IInv, Shape
  <2> QED
    BY <2>1, <2>2, Keyed DEF ItsMeter
<1> HIDE DEF meter
<1>3. /\ event' \in [Keys -> EventRow]
      /\ \A k \in Keys : Recorded(k) \/ k \notin r.rows => event'[k] = event[k]
      /\ \A k \in r.rows : ~Recorded(k) =>
           event'[k].meter = r.onto /\ event'[k].at = payment[k].paidAt
  <2> DEFINE rows == r.rows
             onto == r.onto
  <2>1. event' = Written(rows, onto) /\ rows \in SUBSET Payments /\ (rows # {} => onto \in Meters)
    BY <1>1, <1>2, <1>20
  <2> HIDE DEF rows, onto
  <2>2. Shape
    BY DEF IInv
  <2>3. /\ event' \in [Keys -> EventRow]
        /\ \A k \in Keys : Recorded(k) \/ k \notin rows => event'[k] = event[k]
        /\ \A k \in rows : ~Recorded(k) =>
             event'[k].meter = onto /\ event'[k].at = payment[k].paidAt
    BY <2>1, <2>2, WrittenLeaves
  <2> QED
    BY <2>3 DEF rows, onto
<1>4. /\ bill.sub = s /\ bill.meter = r.meter /\ bill.start = r.start /\ bill.end = r.end /\ bill.known = r.known
      /\ \A k : k \in bill.counted <=>
           k \in Keys /\ event'[k].meter = r.meter /\ InWindow(event'[k].at, r.start, r.end)
  BY <1>1 DEF PeriodUsage
<1>5. row \in SubRow /\ row.start = r.end /\ row.start < row.end /\ row.meter = meter
  <2>2. PICK q \in SubRow, m \in Nat : q = sub[s] /\ m = r.end + PeriodLength
    BY <1>2, MeteringAssumption DEF IInv, Shape
  <2>3. r.end < r.end + PeriodLength
    BY <1>2, MeteringAssumption
  <2>4. PICK n \in Nat : n = r.end
    BY <1>2
  <2>5. row = [q EXCEPT !.start = n, !.end = m, !.meter = meter]
    BY <2>2, <2>4
  <2> HIDE DEF r, row
  <2>6. row \in SubRow /\ row.start = n /\ row.end = m /\ row.meter = meter
    BY <1>20, <2>5 DEF SubRow
  <2> QED
    BY <2>2, <2>3, <2>4, <2>6
<1> HIDE DEF bill, row
<1>6. /\ sub' \in [Enrolments -> SubRow] /\ sub'[s].start = r.end /\ sub'[s].start < sub'[s].end
      /\ sub'[s].meter = meter
      /\ \A t \in Enrolments \ {s} : sub'[t] = sub[t]
  BY <1>1, <1>5 DEF IInv, Shape
<1>7. /\ renewal' \in [Enrolments -> Renewing] /\ renewal'[s].stage = "idle"
      /\ \A t \in Enrolments \ {s} : renewal'[t] = renewal[t]
  <2>1. NoRenewal \in Renewing /\ NoRenewal.stage = "idle"
    BY DEF NoRenewal, Renewing
  <2> QED
    BY <1>1, <2>1 DEF IInv, Shape
<1>8. Shape'
  BY <1>1, <1>2, <1>3, <1>4, <1>6, <1>7, <1>20 DEF IInv, Shape
<1>9. \A k \in Keys : Recorded(k) => Recorded(k)' /\ event'[k] = event[k]
  BY <1>3 DEF Recorded
<1>10. OnlySettledIsWritten'
  <2>1. ASSUME NEW p \in Payments, Recorded(p)'
        PROVE  Settled(p) /\ event'[p].at = payment[p].paidAt
    <3>1. CASE Recorded(p) \/ p \notin r.rows
      <4>1. event'[p] = event[p]
        BY <1>3, <3>1, Keyed
      <4>2. Recorded(p)
        BY <2>1, <4>1 DEF Recorded
      <4> QED
        BY <4>1, <4>2 DEF IInv, OnlySettledIsWritten
    <3>2. CASE p \in r.rows /\ ~Recorded(p)
      BY <1>1, <1>3, <3>2 DEF IInv, OnlySettledIsWritten
    <3> QED
      BY <3>1, <3>2
  <2> QED
    BY <1>1, <1>7, <2>1 DEF IInv, OnlySettledIsWritten, Settled
<1>11. KnownIsWritten'
  <2>1. \A t \in Enrolments : renewal[t].known \subseteq Keys
    BY Keyed DEF IInv, Shape, Renewing
  <2> QED
    BY <1>1, <1>7, <1>9, <2>1 DEF IInv, KnownIsWritten, Settled, Countable
<1>12. RenewsTheRow'
  BY <1>1, <1>6, <1>7 DEF IInv, RenewsTheRow
<1>13. ~rebased => r.start = sub[s].start /\ r.end = sub[s].end
  BY <1>1 DEF IInv, RenewsTheRow
<1>14. BillsAreBehind'
  <2> SUFFICES ASSUME ~rebased, NEW b \in bills PROVE b.end <= sub'[b.sub].start
    BY <1>1, <1>2, <1>4, <1>6 DEF BillsAreBehind
  <2>1. b.end <= sub[b.sub].start /\ b.end \in Nat /\ b.sub \in Enrolments
    BY DEF IInv, Shape, BillsAreBehind
  <2>2. CASE b.sub = s
    <3>1. sub[s].start \in Nat /\ sub[s].end \in Nat /\ sub[s].start < sub[s].end
      BY DEF IInv, Shape, SubRow
    <3> QED
      BY <1>6, <1>13, <2>1, <2>2, <3>1
  <2>3. CASE b.sub # s
    BY <1>6, <2>1, <2>3
  <2> QED
    BY <2>2, <2>3
<1>15. \A b \in bills : \A k \in b.counted :
         /\ k \in Keys /\ event'[k].meter = b.meter /\ InWindow(event'[k].at, b.start, b.end)
  BY <1>1, <1>9, EventsKeep
<1>16. CountedIsDated'
  BY <1>1, <1>4, <1>15 DEF CountedIsDated, InWindow
<1>17. CountedOnce'
  <2> SUFFICES ASSUME ~rebased, DistinctMeters, NEW b \in bills, NEW k \in b.counted,
                      k \in bill.counted
               PROVE  FALSE
    BY <1>1 DEF IInv, CountedOnce, DistinctMeters
  <2>1. /\ event'[k].meter = b.meter /\ InWindow(event'[k].at, b.start, b.end) /\ k \in Keys
        /\ event'[k].meter = r.meter /\ InWindow(event'[k].at, r.start, r.end)
    BY <1>4, <1>15
  <2>2. b.sub = s
    BY <1>20, <2>1 DEF DistinctMeters, IInv, Shape
  <2>3. b.end <= r.start
    BY <1>13, <2>2 DEF IInv, BillsAreBehind
  <2>4. event'[k].at \in Nat /\ b.end \in Nat
    BY <1>3, <2>1 DEF EventRow, IInv, Shape
  <2> QED
    BY <1>2, <2>1, <2>3, <2>4 DEF InWindow
<1>18. KnownIsPayments'
  BY <1>1, <1>2, <1>4 DEF IInv, KnownIsPayments
<1>19. \A p \in Payments : event'[p].meter # "none" => \E t \in Enrolments : ItsMeter(t, event'[p].meter)
  <2> SUFFICES ASSUME NEW p \in Payments, event'[p].meter # "none"
               PROVE  \E t \in Enrolments : ItsMeter(t, event'[p].meter)
    OBVIOUS
  <2>1. CASE Recorded(p) \/ p \notin r.rows
    BY <1>3, <2>1, Keyed DEF IInv, OnItsMeter, Recorded
  <2>2. CASE p \in r.rows /\ ~Recorded(p)
    BY <1>3, <1>20, <2>2
  <2> QED
    BY <2>1, <2>2
<1>21. OnItsMeter'
  <2>1. \A t \in Enrolments \ moved : sub'[t].meter = sub[t].meter
    BY <1>6, <1>20
  <2>3. \A t \in Enrolments :
          /\ ItsMeter(t, offer[t])'
          /\ renewal'[t].stage # "idle" => ItsMeter(t, renewal[t].meter)'
          /\ renewal'[t].stage # "idle" /\ renewal'[t].rows # {} => ItsMeter(t, renewal[t].onto)'
    BY <1>1, <1>7, <2>1 DEF IInv, OnItsMeter, ItsMeter
  <2>4. pass'.reading => \E t \in Enrolments : ItsMeter(t, pass.onto)'
    BY <1>1, <2>1 DEF IInv, OnItsMeter, ItsMeter
  <2>5. \A p \in Payments : Recorded(p)' => \E t \in Enrolments : ItsMeter(t, event[p].meter)'
    BY <1>1, <1>19, <2>1 DEF Recorded, ItsMeter
  <2> QED
    BY <2>3, <2>4, <2>5 DEF OnItsMeter
<1>22. FlushMissesNothing'
  <2>1. \A b \in bills, p \in Payments : p \in b.known => p \in b.counted \/ Elsewhere(b, event'[p].meter)
    BY <1>1, <1>9, EventsKeep
  <2>2. ASSUME NEW p \in Payments, p \in r.known, p \notin bill.counted
        PROVE  Elsewhere(bill, event'[p].meter)
    <3>1. /\ Settled(p) /\ InWindow(payment[p].paidAt, r.start, r.end)
          /\ p \in r.rows \/ Recorded(p)
      BY <1>1, <2>2 DEF IInv, KnownIsWritten
    <3>2. event'[p].at = payment[p].paidAt /\ event'[p].meter # "none"
      <4>1. CASE Recorded(p)
        BY <1>3, <4>1, Keyed DEF IInv, OnlySettledIsWritten, Recorded
      <4>2. CASE ~Recorded(p)
        BY <1>3, <1>20, <3>1, <4>2, Keyed
      <4> QED
        BY <4>1, <4>2
    <3>3. event'[p].meter \in Meters /\ p \in Keys
      BY <1>3, <3>2, Keyed DEF EventRow
    <3>4. event'[p].meter # r.meter
      BY <1>4, <2>2, <3>1, <3>2, <3>3
    <3>5. PICK t \in Enrolments : ItsMeter(t, event'[p].meter)
      BY <1>19, <3>2
    <3>6. s \in moved \/ t # s
      BY <1>20, <3>4, <3>5 DEF ItsMeter
    <3>7. t # s => event'[p].meter \in OthersMeters(s)
      BY <3>5 DEF ItsMeter, OthersMeters
    <3> QED
      BY <1>4, <3>3, <3>4, <3>6, <3>7 DEF Elsewhere
  <2> QED
    BY <1>1, <1>4, <2>1, <2>2 DEF FlushMissesNothing, Elsewhere
<1> QED
  BY <1>8, <1>10, <1>11, <1>12, <1>14, <1>16, <1>17, <1>18, <1>21, <1>22 DEF IInv

LEMMA StepInv == IInv /\ [Next]_vars => IInv'
<1> SUFFICES ASSUME IInv, [Next]_vars PROVE IInv'
  OBVIOUS
<1>1. CASE Tick
  <2>1. /\ now' \in Nat
        /\ UNCHANGED <<payment, event, sub, offer, active, moved, pass, renewal, bills, rebased>>
    BY <1>1 DEF Tick, IInv, Shape, prices
  <2> QED
    BY <2>1, RowInv DEF IInv, Shape
<1>2. CASE UNCHANGED vars
  BY <1>2, RowInv DEF vars, prices, IInv, Shape
<1> QED
  BY <1>1, <1>2, PaymentInv, UpsetInv, PriceInv, BeginInv, FlushInv, CommitInv, TrackInv, PassInv DEF Next

LEMMA Invariance == Spec => []IInv
<1> QED
  BY InitInv, StepInv, PTL DEF Spec

-----------------------------------------------------------------------------

\* Whatever the pass, the flush and trackUsage write meanwhile, and however many
\* renewals there are, an event is on one bill at most, for enrolments on meters of
\* their own and until a recovery from UNPAID moves a period.
THEOREM UsageIsBilledOnce == Spec => []VolumeIsBilledOnce
<1>1. IInv => VolumeIsBilledOnce
  <2> SUFFICES ASSUME IInv, ~rebased, DistinctMeters, NEW k \in Keys
               PROVE  Cardinality({b \in bills : k \in b.counted}) <= 1
    BY DEF VolumeIsBilledOnce
  <2> DEFINE with == {b \in bills : k \in b.counted}
  <2>1. \A b, c \in with : b = c
    BY DEF IInv, CountedOnce
  <2>2. CASE with = {}
    BY <2>2, FS_EmptySet
  <2>3. CASE with # {}
    <3>1. PICK b \in with : with = {b}
      BY <2>1, <2>3
    <3> QED
      <4>1. Cardinality(with) = 1
        BY <3>1, FS_Singleton
      <4> QED
        BY <4>1
  <2> QED
    BY <2>2, <2>3
<1> QED
  BY <1>1, Invariance, PTL

\* What a renewal that flushes knew to be settled in its period is on a usage event, and
\* on its bill unless the event is on another enrolment's meter or, once its price was
\* given another meter, on one of its own: however many enrolments, versions, plan
\* changes and archived meters there are.
THEOREM FlushIsComplete == Spec => []FlushMissesNothing
<1>1. IInv => FlushMissesNothing
  BY DEF IInv
<1> QED
  BY <1>1, Invariance, PTL

-----------------------------------------------------------------------------
(* What the units of a set of events come to is a number, so that the charge  *)
(* is one.  The fold is a recursive function on the subsets of the set: it    *)
(* exists because there is no smallest subset without one, two agree because  *)
(* there is no smallest on which they differ, and it is a number because      *)
(* there is no smallest on which it is not.                                   *)

LEMMA KeysAreFinite == IsFiniteSet(Keys)
  BY MeteringAssumption, FS_Union DEF Keys

LEMMA SmallestSet ==
  ASSUME NEW F, F \subseteq SUBSET Keys, F # {}
  PROVE  \E s \in F : \A t \in F : t \subseteq s => t = s
<1>1. F \subseteq FiniteSubsetsOf(Keys)
  BY KeysAreFinite, FS_Subset DEF FiniteSubsetsOf
<1>2. \E s \in F : \A t \in F : <<t, s>> \notin StrictSubsetOrdering(Keys)
  BY <1>1, FS_StrictSubsetOrderingWellFounded, WFMin
<1> QED BY <1>2 DEF StrictSubsetOrdering

\* The fold takes the members of a set in this order.
FirstOf(s) == CHOOSE k \in s : TRUE
RestOf(s) == s \ {FirstOf(s)}

\* g sums the subsets of T as the fold does.
Sums(g, T) == g = [s \in SUBSET T |-> IF s = {} THEN 0 ELSE Units[FirstOf(s)] + g[RestOf(s)]]

LEMMA RestIsSmaller ==
  ASSUME NEW s, s # {}
  PROVE  FirstOf(s) \in s /\ RestOf(s) \subseteq s /\ RestOf(s) # s
<1>1. FirstOf(s) \in s
  BY DEF FirstOf
<1> QED BY <1>1 DEF RestOf

LEMMA SumStep ==
  ASSUME NEW g, NEW T, Sums(g, T), NEW s \in SUBSET T
  PROVE  g[s] = IF s = {} THEN 0 ELSE Units[FirstOf(s)] + g[RestOf(s)]
  BY DEF Sums

LEMMA SumsAgree ==
  ASSUME NEW T \in SUBSET Keys, NEW U \in SUBSET T, NEW g, NEW h, Sums(g, T), Sums(h, U)
  PROVE  \A s \in SUBSET U : g[s] = h[s]
<1> DEFINE Apart == {s \in SUBSET U : g[s] # h[s]}
<1> SUFFICES ASSUME Apart # {} PROVE FALSE
  OBVIOUS
<1>1. PICK s \in Apart : \A t \in Apart : t \subseteq s => t = s
  <2>1. Apart \subseteq SUBSET Keys
    OBVIOUS
  <2> HIDE DEF Apart
  <2> QED BY <2>1, SmallestSet
<1>2. s \in SUBSET U /\ s \in SUBSET T
  OBVIOUS
<1>3. /\ g[s] = IF s = {} THEN 0 ELSE Units[FirstOf(s)] + g[RestOf(s)]
      /\ h[s] = IF s = {} THEN 0 ELSE Units[FirstOf(s)] + h[RestOf(s)]
  BY <1>2, SumStep
<1>4. CASE s = {}
  BY <1>3, <1>4
<1>5. CASE s # {}
  <2>1. RestOf(s) \subseteq s /\ RestOf(s) # s
    BY <1>5, RestIsSmaller
  <2>2. RestOf(s) \notin Apart
    BY <1>1, <2>1
  <2>3. g[RestOf(s)] = h[RestOf(s)]
    BY <1>2, <2>1, <2>2
  <2> QED BY <1>3, <1>5, <2>3
<1> QED BY <1>4, <1>5

LEMMA SumExists ==
  ASSUME NEW S \in SUBSET Keys
  PROVE  \E g : Sums(g, S)
<1> DEFINE Without == {T \in SUBSET Keys : ~\E g : Sums(g, T)}
<1> SUFFICES ASSUME Without # {} PROVE FALSE
  OBVIOUS
<1>1. PICK T \in Without : \A U \in Without : U \subseteq T => U = T
  <2>1. Without \subseteq SUBSET Keys
    OBVIOUS
  <2> HIDE DEF Without
  <2> QED BY <2>1, SmallestSet
<1> DEFINE sum(U) == CHOOSE g : Sums(g, U)
           G == [s \in SUBSET T |-> IF s = {} THEN 0 ELSE Units[FirstOf(s)] + sum(RestOf(s))[RestOf(s)]]
<1>2. ASSUME NEW U, U \subseteq T, U # T PROVE Sums(sum(U), U)
  <2>1. U \notin Without /\ U \in SUBSET Keys
    BY <1>1, <1>2
  <2>2. \E g : Sums(g, U)
    BY <2>1
  <2> QED BY <2>2
<1> HIDE DEF sum
<1>3. ASSUME NEW s \in SUBSET T, s # {}
      PROVE  sum(RestOf(s))[RestOf(s)] = G[RestOf(s)]
  <2> DEFINE u == RestOf(s)
             v == RestOf(u)
  <2>1. u \subseteq T /\ u # T
    BY <1>3, RestIsSmaller
  <2> HIDE DEF u
  <2>2. Sums(sum(u), u)
    BY <1>2, <2>1
  <2>3. sum(u)[u] = IF u = {} THEN 0 ELSE Units[FirstOf(u)] + sum(u)[v]
    BY <2>2, SumStep
  <2>4. G[u] = IF u = {} THEN 0 ELSE Units[FirstOf(u)] + sum(v)[v]
    BY <2>1
  <2>5. ASSUME u # {} PROVE sum(u)[v] = sum(v)[v]
    <3>1. v \subseteq u /\ v # T /\ v \subseteq T
      BY <2>1, <2>5, RestIsSmaller
    <3> HIDE DEF v
    <3>2. Sums(sum(v), v)
      BY <1>2, <3>1
    <3>3. u \in SUBSET Keys
      BY <2>1
    <3> QED BY <2>2, <3>1, <3>2, <3>3, SumsAgree
  <2>6. sum(u)[u] = G[u]
    <3> HIDE DEF v, G
    <3> QED BY <2>3, <2>4, <2>5
  <2> QED BY <2>6 DEF u
<1>4. Sums(G, T)
  <2>1. ASSUME NEW s \in SUBSET T
        PROVE  (IF s = {} THEN 0 ELSE Units[FirstOf(s)] + sum(RestOf(s))[RestOf(s)])
                 = (IF s = {} THEN 0 ELSE Units[FirstOf(s)] + G[RestOf(s)])
    <3> HIDE DEF G
    <3> QED BY <1>3
  <2>2. G = [s \in SUBSET T |-> IF s = {} THEN 0 ELSE Units[FirstOf(s)] + G[RestOf(s)]]
    BY <2>1
  <2> HIDE DEF G
  <2> QED BY <2>2 DEF Sums
<1>5. \E g : Sums(g, T)
  BY <1>4
<1> QED BY <1>5

LEMMA SumIsNat ==
  ASSUME NEW T \in SUBSET Keys, NEW g, Sums(g, T)
  PROVE  \A s \in SUBSET T : g[s] \in Nat
<1> DEFINE Odd == {s \in SUBSET T : g[s] \notin Nat}
<1> SUFFICES ASSUME Odd # {} PROVE FALSE
  OBVIOUS
<1>1. PICK s \in Odd : \A t \in Odd : t \subseteq s => t = s
  <2>1. Odd \subseteq SUBSET Keys
    OBVIOUS
  <2> HIDE DEF Odd
  <2> QED BY <2>1, SmallestSet
<1>2. s \in SUBSET T
  OBVIOUS
<1>3. g[s] = IF s = {} THEN 0 ELSE Units[FirstOf(s)] + g[RestOf(s)]
  BY <1>2, SumStep
<1>4. CASE s = {}
  BY <1>3, <1>4
<1>5. CASE s # {}
  <2>1. RestOf(s) \subseteq s /\ RestOf(s) # s /\ FirstOf(s) \in Keys
    BY <1>2, <1>5, RestIsSmaller
  <2>2. g[RestOf(s)] \in Nat
    BY <1>1, <1>2, <2>1
  <2>3. Units[FirstOf(s)] \in Nat
    BY <2>1, MeteringAssumption
  <2> QED BY <1>1, <1>3, <1>5, <2>2, <2>3
<1> QED BY <1>4, <1>5

LEMMA TotalIsASum ==
  ASSUME NEW S \in SUBSET Keys
  PROVE  \E g : Sums(g, S) /\ Total(S) = g[S]
<1> DEFINE g == CHOOSE g : Sums(g, S)
<1>1. Sums(g, S)
  BY SumExists
<1>2. Total(S) = g[S]
  BY DEF Total, FoldSet, MapThenFoldSet, Sums, FirstOf, RestOf
<1> QED BY <1>1, <1>2

LEMMA TotalIsNat ==
  ASSUME NEW S \in SUBSET Keys
  PROVE  Total(S) \in Nat
<1>1. PICK g : Sums(g, S) /\ Total(S) = g[S]
  BY TotalIsASum
<1> QED BY <1>1, SumIsNat

\* A bill's usage is charged for within the price's cap.
LEMMA ChargeIsCapped ==
  ASSUME NEW used \in Nat
  PROVE  UsageCharge(Rating, used) \in 0..Rating.cap
<1> DEFINE overage == Overage(used, Rating.included)
           blocks == BillableBlocks(overage, Rating.unitSize)
<1>1. /\ Rating.included \in Nat /\ Rating.unitAmount \in Nat /\ Rating.unitSize \in Nat
      /\ Rating.cap \in Nat
  BY MeteringAssumption
<1>2. overage \in Nat
  BY <1>1 DEF Overage, AtLeast
<1> HIDE DEF overage
<1>3. blocks \in Nat
  <2> DEFINE size == AtLeast(Rating.unitSize, 1)
  <2>1. size \in Nat \ {0}
    BY <1>1 DEF AtLeast
  <2>2. blocks = IF overage <= 0 THEN 0 ELSE (overage + size - 1) \div size
    BY DEF BillableBlocks
  <2> HIDE DEF size, blocks
  <2>3. overage + size - 1 \in Nat
    BY <1>2, <2>1
  <2>4. (overage + size - 1) \div size \in Nat
    BY <2>1, <2>3
  <2> QED BY <2>2, <2>4
<1> HIDE DEF blocks
<1>4. blocks * Rating.unitAmount \in Nat
  BY <1>1, <1>3
<1>5. CappedFee(blocks * Rating.unitAmount, Rating.cap) \in 0..Rating.cap
  BY <1>1, <1>4 DEF CappedFee, AtMost, AtLeast
<1> QED BY <1>1, <1>5 DEF UsageCharge, overage, blocks

\* A started block is charged for in full: the blocks cover the overage, and one
\* block fewer would not.
THEOREM BlocksCoverTheOverage ==
  ASSUME NEW overage \in Nat \ {0}, NEW size \in Nat \ {0}
  PROVE  LET blocks == BillableBlocks(overage, size)
         IN blocks \in Nat /\ (blocks - 1) * size < overage /\ overage <= blocks * size
<1> DEFINE n == overage + size - 1
           q == n \div size
           r == n % size
<1>1. n \in Nat /\ q \in Nat /\ r \in Nat /\ r < size /\ n = size * q + r
  OBVIOUS
<1>2. BillableBlocks(overage, size) = q
  BY DEF BillableBlocks, AtLeast
<1>3. overage = n - size + 1
  OBVIOUS
<1> HIDE DEF n, q, r
<1>4. (q - 1) * size = size * q - size /\ q * size = size * q /\ size * q \in Nat
  BY <1>1
<1> QED BY <1>1, <1>2, <1>3, <1>4


-----------------------------------------------------------------------------
(* Typing: what TypeOK adds to Shape.                                        *)

Bounded ==
  /\ now \in Days /\ upsets \in 0..MaxUpsets
  /\ \A p \in Payments : payment[p].paidAt \in Days
  /\ \A k \in Keys : event[k].at \in Days
  /\ pass \in [reading : BOOLEAN, onto : Meters \cup {"none"}, rows : SUBSET Payments]
  /\ \A b \in bills : b \in Bill

LEMMA BoundedShapeIsTyped ==
  ASSUME Shape, Bounded
  PROVE  TypeOK
<1>1. payment \in [Payments -> [status : {"PENDING", "TAKEN", "SUCCEEDED"}, paidAt : Days]]
  <2>1. \A r \in PaymentRow : r.paidAt \in Days =>
          r \in [status : {"PENDING", "TAKEN", "SUCCEEDED"}, paidAt : Days]
    BY DEF PaymentRow
  <2> QED BY <2>1 DEF Shape, Bounded
<1>2. event \in [Keys -> [meter : Meters \cup {"none"}, at : Days]]
  <2>1. \A r \in EventRow : r.at \in Days => r \in [meter : Meters \cup {"none"}, at : Days]
    BY DEF EventRow
  <2> QED BY <2>1 DEF Shape, Bounded
<1>3. \A s \in Enrolments :
        /\ sub[s] \in [status : {"ACTIVE", "UNPAID", "CANCELED"}, start : Nat, end : Nat,
                       meter : MetersOf[s]]
        /\ sub[s].start < sub[s].end /\ offer[s] \in MetersOf[s]
  BY DEF Shape, SubRow
<1> QED BY <1>1, <1>2, <1>3 DEF TypeOK, Shape, Bounded, Renewing

LEMMA InitBounded == Init => Bounded
<1> SUFFICES ASSUME Init PROVE Bounded
  OBVIOUS
<1>1. 0 \in Days /\ 0 \in 0..MaxUpsets
  BY MeteringAssumption DEF Days
<1>2. /\ \A p \in Payments : payment[p].paidAt \in Days
      /\ \A k \in Keys : event[k].at \in Days
  BY <1>1 DEF Init, NoEvent
<1>3. pass \in [reading : BOOLEAN, onto : Meters \cup {"none"}, rows : SUBSET Payments]
  BY DEF Init, NoPass
<1> QED BY <1>1, <1>2, <1>3 DEF Init, Bounded

LEMMA UpsetsCount ==
  ASSUME Bounded, upsets < MaxUpsets
  PROVE  upsets + 1 \in 0..MaxUpsets
  BY MeteringAssumption DEF Bounded

\* Written dates by payments.
LEMMA WrittenIsDated ==
  ASSUME Bounded, NEW rows \in SUBSET Payments, NEW s
  PROVE  \A k \in Keys : Written(rows, s)[k].at \in Days
  BY DEF Bounded, Written

LEMMA CommitBounded ==
  ASSUME IInv, Bounded, NEW s \in Enrolments, CommitRenewal(s)
  PROVE  Bounded'
<1> DEFINE r == renewal[s]
           counted == PeriodUsage(s)
           charge == UsageCharge(Rating, Total(counted))
           bill == [sub |-> s, meter |-> r.meter, start |-> r.start, end |-> r.end, charge |-> charge,
                    counted |-> counted, known |-> r.known]
<1>1. r \in Renewing /\ r.meter \in Meters
  <2>1. ItsMeter(s, r.meter)
    BY DEF CommitRenewal, IInv, OnItsMeter
  <2> QED BY <2>1, Keyed DEF IInv, Shape, ItsMeter
<1>2. counted \in SUBSET Keys
  BY DEF PeriodUsage
<1>3. charge \in 0..Rating.cap
  <2> HIDE DEF counted
  <2> QED BY <1>2, TotalIsNat, ChargeIsCapped
<1>4. bill \in Bill
  <2> HIDE DEF counted, charge, r
  <2> QED BY <1>1, <1>2, <1>3 DEF Renewing, Bill
<1>5. /\ bills' = bills \cup {bill} /\ event' = Written(r.rows, r.onto)
      /\ UNCHANGED <<now, payment, pass, upsets>>
  BY DEF CommitRenewal
<1>6. \A k \in Keys : event'[k].at \in Days
  <2>1. r.rows \in SUBSET Payments
    BY <1>1 DEF Renewing
  <2> HIDE DEF r
  <2> QED BY <1>5, <2>1, WrittenIsDated
<1> HIDE DEF bill, r
<1> QED BY <1>4, <1>5, <1>6 DEF Bounded

LEMMA BoundedKept ==
  ASSUME IInv, Bounded, [Next]_vars
  PROVE  Bounded'
<1>1. CASE UNCHANGED vars
  BY <1>1 DEF vars, Bounded
<1>2. ASSUME NEW p \in Payments, Take(p) \/ Settle(p) PROVE Bounded'
  <2>1. UNCHANGED <<now, event, pass, bills, upsets>>
    BY <1>2 DEF Take, Settle
  <2>2. \A q \in Payments : payment'[q].paidAt \in {now, payment[q].paidAt}
    <3>1. payment \in [Payments -> PaymentRow]
      BY DEF IInv, Shape
    <3>2. CASE Take(p)
      BY <3>1, <3>2 DEF Take
    <3>3. CASE Settle(p)
      <4>1. \A q \in PaymentRow : [q EXCEPT !.status = "SUCCEEDED"].paidAt = q.paidAt
        BY DEF PaymentRow
      <4> QED BY <3>1, <3>3, <4>1 DEF Settle
    <3> QED BY <1>2, <3>2, <3>3
  <2>3. \A q \in Payments : payment'[q].paidAt \in Days
    BY <2>2 DEF Bounded
  <2> QED BY <2>1, <2>3 DEF Bounded
<1>3. ASSUME NEW s \in Enrolments, Lapse(s) \/ Cancel(s) \/ Recover(s) \/ RequestRenews(s)
                                     \/ RenewalFails(s) \/ EditPrice(s) \/ ChangePlan(s)
      PROVE  Bounded'
  <2>1. UNCHANGED <<now, payment, event, pass, bills>>
    BY <1>3 DEF Lapse, Cancel, Recover, EditPrice, ChangePlan, Upset, RequestRenews, RenewalFails,
                BeginRenewal
  <2>2. upsets' = upsets + 1 /\ upsets < MaxUpsets
    BY <1>3 DEF Lapse, Cancel, Recover, EditPrice, ChangePlan, Upset, RequestRenews, RenewalFails
  <2> QED BY <2>1, <2>2, UpsetsCount DEF Bounded
<1>4. ASSUME NEW s \in Enrolments, SweepRenews(s) \/ Flush(s) PROVE Bounded'
  BY <1>4 DEF SweepRenews, BeginRenewal, Flush, Bounded
<1>5. ASSUME NEW k \in Tracked, Track(k) PROVE Bounded'
  <2>1. PICK at \in 0..now : event' = [event EXCEPT ![k] = [meter |-> MeterOf[k], at |-> at]]
    BY <1>5 DEF Track
  <2>2. at \in Days
    BY MeteringAssumption DEF Bounded, Days
  <2>3. event \in [Keys -> EventRow]
    BY DEF IInv, Shape
  <2>4. \A l \in Keys : event'[l].at \in Days
    BY <2>1, <2>2, <2>3 DEF Bounded
  <2> QED BY <1>5, <2>4 DEF Track, Bounded
<1>6. CASE PassReads \/ PassDies
  <2>1. UNCHANGED <<now, payment, event, bills>> /\ upsets' \in 0..MaxUpsets
    BY <1>6, UpsetsCount DEF PassReads, PassDies, Bounded
  <2>2. pass' \in [reading : BOOLEAN, onto : Meters \cup {"none"}, rows : SUBSET Payments]
    <3>1. \A from, until : VolumeIn(from, until) \in SUBSET Payments
      BY DEF VolumeIn
    <3>2. CASE PassReads
      <4>1. PICK s \in Enrolments :
              pass' = [reading |-> TRUE, onto |-> sub[s].meter,
                       rows |-> VolumeIn(IF now > Lookback THEN now - Lookback ELSE 0, now)]
        BY <3>2 DEF PassReads
      <4>2. sub[s].meter \in Meters
        BY Keyed DEF IInv, Shape
      <4> QED BY <3>1, <4>1, <4>2
    <3>3. CASE PassDies
      BY <3>3 DEF PassDies, NoPass
    <3> QED BY <1>6, <3>2, <3>3
  <2> QED BY <2>1, <2>2 DEF Bounded
<1>7. CASE PassWrites
  <2>1. \A k \in Keys : event'[k].at \in Days
    BY <1>7, WrittenIsDated DEF PassWrites, Bounded
  <2>2. pass' \in [reading : BOOLEAN, onto : Meters \cup {"none"}, rows : SUBSET Payments]
    BY <1>7 DEF PassWrites, NoPass
  <2> QED BY <1>7, <2>1, <2>2 DEF PassWrites, Bounded
<1>8. CASE Tick
  <2>1. now' \in Days
    BY <1>8, MeteringAssumption DEF Tick, Bounded, Days
  <2> QED BY <1>8, <2>1 DEF Tick, Bounded
<1>9. ASSUME NEW m \in Meters, SwitchMeter(m) PROVE Bounded'
  <2>1. upsets' \in 0..MaxUpsets
    BY <1>9, UpsetsCount DEF SwitchMeter
  <2> QED BY <1>9, <2>1 DEF SwitchMeter, Bounded
<1> QED BY <1>1, <1>2, <1>3, <1>4, <1>5, <1>6, <1>7, <1>8, <1>9, CommitBounded DEF Next

\* The events, the bills and every pass and renewal in flight keep their types, and
\* no bill charges for usage beyond the price's cap, whatever the events add up to.
THEOREM TypeCorrect == Spec => []TypeOK
<1>1. Init => IInv /\ Bounded
  BY InitInv, InitBounded
<1>2. IInv /\ Bounded /\ [Next]_vars => IInv' /\ Bounded'
  BY StepInv, BoundedKept
<1>3. IInv /\ Bounded => TypeOK
  BY BoundedShapeIsTyped DEF IInv
<1> QED BY <1>1, <1>2, <1>3, PTL DEF Spec
=============================================================================
