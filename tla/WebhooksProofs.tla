--------------------------- MODULE WebhooksProofs ---------------------------
(***************************************************************************)
(* The safety of Webhooks for any number of endpoints, jobs, handlers,     *)
(* attempts, resends, replays and faults.  The invariant follows an event  *)
(* an endpoint has taken while nothing is in doubt: its row is not PENDING *)
(* any more, or the one job that has it on its list knows the answer and   *)
(* is about to record it.                                                  *)
(***************************************************************************)
EXTENDS Webhooks, TLAPS

\* What a job is at is one row of its list; an idle one has none.
JobsFit ==
  \A j \in Jobs :
    /\ job[j].pc = "idle" => job[j].batch = {}
    /\ job[j].at \subseteq job[j].batch
    /\ \A e, f \in job[j].at : e = f

DeletedHasNoRow == \A e \in Endpoints : endpoint[e] = "deleted" => delivery[e].status = "NONE"

NothingBeforeApplied ==
  ~applied => /\ \A e \in Endpoints : delivery[e].status = "NONE" /\ accepted[e] = 0
              /\ \A j \in Jobs : job[j].batch = {}

\* The job has the endpoint's 2xx in hand.
Told(j, e) == job[j].pc \in {"answered", "recording"} /\ e \in job[j].at /\ job[j].ok

\* An event that has not been taken in doubt: one list at most has it, it has been taken
\* once at most, and if it has, whoever has it on its list is about to record that.
Undoubted(e) ==
  /\ \A j, k \in Jobs : e \in job[j].batch /\ e \in job[k].batch => j = k
  /\ accepted[e] <= 1
  /\ accepted[e] = 1 =>
       /\ \A j \in Jobs : e \in job[j].batch => Told(j, e)
       /\ delivery[e].status = "PENDING" => \E j \in Jobs : e \in job[j].batch

DoubtIsNoted == \A e \in Endpoints : e \notin doubtful => Undoubted(e)

IntakeFits ==
  /\ event = "PROCESSED" => applied
  /\ \A h \in Handlers : handler[h] = "handled" => applied

DeliveriesInv ==
  DeliveriesTypeOK /\ JobsFit /\ DeletedHasNoRow /\ NothingBeforeApplied /\ DoubtIsNoted
IInv == TypeOK /\ DeliveriesInv /\ IntakeFits /\ AcknowledgedIsApplied

LEMMA InitInv == Init => IInv
<1> SUFFICES ASSUME Init PROVE IInv
  OBVIOUS
<1> USE DEF Init, DeliveriesInit
<1>1. NoDelivery \in DeliveryRow /\ NoDelivery.status = "NONE"
  BY DEF NoDelivery, DeliveryRow
<1>2. IdleJob \in JobState /\ IdleJob.batch = {} /\ IdleJob.at = {}
  BY DEF IdleJob, JobState
<1>3. DeliveriesTypeOK
  BY <1>1, <1>2, DeliveriesAssumption DEF DeliveriesTypeOK
<1>4. TypeOK
  <2>1. replays \in 0..MaxReplays
    BY WebhooksAssumption
  <2>2. handler \in [Handlers -> {"idle", "verified", "new", "again", "processing", "handled",
                                 "throwing"}]
    OBVIOUS
  <2> QED
    BY <1>3, <2>1, <2>2 DEF TypeOK
<1>5. JobsFit /\ NothingBeforeApplied /\ DeletedHasNoRow
  BY <1>1, <1>2 DEF JobsFit, NothingBeforeApplied, DeletedHasNoRow
<1>6. DoubtIsNoted
  BY <1>1, <1>2 DEF DoubtIsNoted, Undoubted
<1>7. IntakeFits /\ AcknowledgedIsApplied
  BY DEF IntakeFits, AcknowledgedIsApplied
<1> QED
  BY <1>3, <1>4, <1>5, <1>6, <1>7 DEF IInv, DeliveriesInv

\* What intake does leaves the deliveries alone, but for the one that applies the result.
LEMMA IntakeInv ==
  ASSUME IInv, UNCHANGED deliveryVars, applied' = applied PROVE DeliveriesInv'
<1>1. DeliveriesTypeOK'
  BY DEF IInv, DeliveriesInv, DeliveriesTypeOK, deliveryVars
<1>2. JobsFit' /\ DeletedHasNoRow' /\ NothingBeforeApplied'
  BY DEF IInv, DeliveriesInv, JobsFit, DeletedHasNoRow, NothingBeforeApplied, deliveryVars
<1>3. DoubtIsNoted'
  BY DEF IInv, DeliveriesInv, DoubtIsNoted, Undoubted, Told, deliveryVars
<1> QED
  BY <1>1, <1>2, <1>3 DEF DeliveriesInv

LEMMA FaultInv ==
  ASSUME IInv, faults < MaxFaults, faults' = faults + 1, applied' = applied,
         UNCHANGED <<endpoint, delivery, job, accepted, doubtful, resends>>
  PROVE  DeliveriesInv'
<1>1. DeliveriesTypeOK'
  BY DeliveriesAssumption DEF IInv, DeliveriesInv, DeliveriesTypeOK
<1>2. JobsFit' /\ DeletedHasNoRow' /\ NothingBeforeApplied'
  BY DEF IInv, DeliveriesInv, JobsFit, DeletedHasNoRow, NothingBeforeApplied
<1>3. DoubtIsNoted'
  BY DEF IInv, DeliveriesInv, DoubtIsNoted, Undoubted, Told
<1> QED
  BY <1>1, <1>2, <1>3 DEF DeliveriesInv

-----------------------------------------------------------------------------
(* The steps of a delivery job. *)

\* A job on its list has the event of none but doubtful endpoints to take again.
LEMMA WorkingHasNotSent ==
  ASSUME IInv, NEW j \in Jobs, job[j].pc = "working", NEW e \in job[j].batch, e \in Endpoints,
         e \notin doubtful
  PROVE  accepted[e] = 0
<1>1. Undoubted(e)
  BY DEF IInv, DeliveriesInv, DoubtIsNoted
<1>2. ~Told(j, e)
  BY DEF Told
<1>3. accepted[e] \in 0..2
  BY DEF IInv, DeliveriesInv, DeliveriesTypeOK
<1> QED
  BY <1>1, <1>2, <1>3 DEF Undoubted

\* So does a job that is about to record a failure, or is at another endpoint.
LEMMA NotToldHasNotSent ==
  ASSUME IInv, NEW j \in Jobs, NEW e \in job[j].batch, e \in Endpoints, e \notin doubtful,
         ~Told(j, e)
  PROVE  accepted[e] = 0
<1>1. Undoubted(e)
  BY DEF IInv, DeliveriesInv, DoubtIsNoted
<1>2. accepted[e] \in 0..2
  BY DEF IInv, DeliveriesInv, DeliveriesTypeOK
<1> QED
  BY <1>1, <1>2 DEF Undoubted

LEMMA ListDueInv ==
  ASSUME IInv, NEW j \in Jobs, ListDue(j), applied' = applied PROVE DeliveriesInv'
<1> DEFINE new == [IdleJob EXCEPT !.pc = "working", !.batch = Due,
                                  !.open = {e \in Due : endpoint[e] = "enabled"}]
<1>0. /\ job[j].pc = "idle" /\ job' = [job EXCEPT ![j] = new]
      /\ doubtful' = doubtful \cup {e \in Due : OnAnotherList(j, e)}
      /\ UNCHANGED <<endpoint, delivery, accepted, resends, faults>>
  BY DEF ListDue
<1>1. /\ new \in JobState /\ new.pc = "working" /\ new.batch = Due /\ new.at = {}
      /\ Due \subseteq Endpoints
  BY DEF IdleJob, JobState, Due
<1> HIDE DEF new
<1>2. job \in [Jobs -> JobState]
  BY DEF IInv, DeliveriesInv, DeliveriesTypeOK
<1>3. job'[j] = new /\ \A k \in Jobs \ {j} : job'[k] = job[k]
  BY <1>0, <1>2
<1>4. DeliveriesTypeOK'
  BY <1>0, <1>1 DEF IInv, DeliveriesInv, DeliveriesTypeOK
<1>5. JobsFit' /\ DeletedHasNoRow'
  BY <1>0, <1>1, <1>3 DEF IInv, DeliveriesInv, JobsFit, DeletedHasNoRow
<1>6. NothingBeforeApplied'
  BY <1>0, <1>1, <1>3 DEF IInv, DeliveriesInv, NothingBeforeApplied, Due
<1>7. DoubtIsNoted'
  <2> SUFFICES ASSUME NEW e \in Endpoints, e \notin doubtful' PROVE Undoubted(e)'
    BY DEF DoubtIsNoted
  <2>1. e \notin doubtful /\ (e \in Due => \A k \in Jobs \ {j} : e \notin job[k].batch)
    BY <1>0 DEF OnAnotherList
  <2>2. Undoubted(e) /\ job[j].batch = {}
    BY <1>0, <2>1 DEF IInv, DeliveriesInv, DoubtIsNoted, JobsFit
  <2>3. CASE e \in Due
    <3>1. accepted[e] # 1
      BY <2>1, <2>2, <2>3 DEF Undoubted, Due
    <3> QED
      BY <1>0, <1>1, <1>3, <2>1, <2>2, <3>1 DEF Undoubted
  <2>4. CASE e \notin Due
    <3>1. \A k \in Jobs : e \in job'[k].batch => k # j /\ e \in job[k].batch
      BY <1>1, <1>3, <2>4
    <3>2. \A k \in Jobs : e \in job[k].batch => k # j /\ job'[k] = job[k]
      BY <1>3, <2>2
    <3> QED
      BY <1>0, <2>2, <3>1, <3>2 DEF Undoubted, Told
  <2> QED
    BY <2>3, <2>4
<1> QED
  BY <1>4, <1>5, <1>6, <1>7 DEF DeliveriesInv

\* The job calls the endpoint, or finds it disabled: what it holds of it changes, and
\* accepted and doubtful as the three cases of the endpoint say.
LEMMA AnsweredInv ==
  ASSUME IInv, NEW j \in Jobs, NEW e \in Endpoints, e \in job[j].batch, job[j].pc = "working",
         NEW ok \in BOOLEAN, Answered(j, e, ok), applied' = applied,
         UNCHANGED <<endpoint, delivery, resends, faults>>,
         \/ ~ok /\ UNCHANGED <<accepted, doubtful>>
         \/ ok /\ Takes(e) /\ UNCHANGED doubtful
         \/ ~ok /\ Takes(e) /\ doubtful' = doubtful \cup {e}
  PROVE  DeliveriesInv'
<1> DEFINE new == [job[j] EXCEPT !.pc = "answered", !.at = {e}, !.ok = ok]
<1>1. job \in [Jobs -> JobState] /\ accepted \in [Endpoints -> 0..2] /\ doubtful \subseteq Endpoints
  BY DEF IInv, DeliveriesInv, DeliveriesTypeOK
<1>2. /\ new \in JobState /\ new.pc = "answered" /\ new.batch = job[j].batch /\ new.at = {e}
      /\ new.ok = ok
  <2>1. \A r \in JobState : LET n == [r EXCEPT !.pc = "answered", !.at = {e}, !.ok = ok]
                            IN /\ n \in JobState /\ n.pc = "answered" /\ n.batch = r.batch
                               /\ n.at = {e} /\ n.ok = ok
    BY DEF JobState
  <2> QED
    BY <1>1, <2>1
<1>3. job' = [job EXCEPT ![j] = new]
  BY DEF Answered
<1> HIDE DEF new
<1>4. job'[j] = new /\ \A k \in Jobs \ {j} : job'[k] = job[k]
  BY <1>1, <1>3
<1>5. /\ accepted' \in [Endpoints -> 0..2] /\ doubtful' \subseteq Endpoints
      /\ \A f \in Endpoints \ {e} : accepted'[f] = accepted[f]
      /\ accepted'[e] = accepted[e] \/ accepted'[e] = IF accepted[e] = 0 THEN 1 ELSE 2
  BY <1>1 DEF Takes
<1>6. DeliveriesTypeOK'
  BY <1>2, <1>3, <1>5 DEF IInv, DeliveriesInv, DeliveriesTypeOK
<1>7. JobsFit' /\ DeletedHasNoRow'
  BY <1>2, <1>4 DEF IInv, DeliveriesInv, JobsFit, DeletedHasNoRow
<1>8. NothingBeforeApplied'
  BY DEF IInv, DeliveriesInv, NothingBeforeApplied
<1>9. DoubtIsNoted'
  <2> SUFFICES ASSUME NEW f \in Endpoints, f \notin doubtful' PROVE Undoubted(f)'
    BY DEF DoubtIsNoted
  <2>1. f \notin doubtful /\ Undoubted(f)
    BY DEF IInv, DeliveriesInv, DoubtIsNoted
  <2>2. \A k \in Jobs : job'[k].batch = job[k].batch
    BY <1>2, <1>4
  <2>3. f \in job[j].batch => accepted[f] = 0
    BY <2>1, WorkingHasNotSent
  <2>4. CASE f # e
    <3>1. accepted'[f] = accepted[f]
      BY <1>5, <2>4
    <3>2. CASE f \in job[j].batch
      BY <2>1, <2>2, <2>3, <3>1, <3>2 DEF Undoubted
    <3>3. CASE f \notin job[j].batch
      <4>1. \A k \in Jobs : f \in job[k].batch => job'[k] = job[k]
        BY <1>4, <3>3
      <4> QED
        BY <2>1, <2>2, <3>1, <4>1 DEF Undoubted, Told
    <3> QED
      BY <3>2, <3>3
  <2>5. CASE f = e
    <3>1. accepted[e] = 0 /\ \A k \in Jobs : e \in job[k].batch => k = j
      BY <2>1, <2>3, <2>5 DEF Undoubted
    <3>2. accepted'[e] \in {0, 1} /\ (accepted'[e] = 1 => ok)
      <4>1. e \notin doubtful'
        BY <2>5
      <4>2. Takes(e) => accepted'[e] = 1
        BY <1>1, <3>1 DEF Takes
      <4>3. CASE ~ok /\ UNCHANGED <<accepted, doubtful>>
        <5>1. accepted' = accepted
          BY <4>3
        <5>2. accepted'[e] = 0
          BY <3>1, <5>1
        <5> QED
          BY <5>2
      <4>4. CASE ok /\ Takes(e) /\ UNCHANGED doubtful
        BY <4>2, <4>4
      <4>5. CASE ~ok /\ Takes(e) /\ doubtful' = doubtful \cup {e}
        BY <4>1, <4>5
      <4> QED
        BY <4>3, <4>4, <4>5
    <3>3. ok => Told(j, e)'
      BY <1>2, <1>4 DEF Told
    <3> QED
      BY <2>2, <2>5, <3>1, <3>2, <3>3 DEF Undoubted
  <2> QED
    BY <2>4, <2>5
<1> QED
  BY <1>6, <1>7, <1>8, <1>9 DEF DeliveriesInv

\* The job at an endpoint takes a step of recording: the list stays, the answer too,
\* or is lost.
LEMMA RecordingInv ==
  ASSUME IInv, NEW j \in Jobs, job[j].pc \in {"answered", "recording"}, NEW new \in JobState,
         job' = [job EXCEPT ![j] = new], new.pc \in {"answered", "recording"},
         new.batch = job[j].batch, new.at = job[j].at,
         \/ new.ok = job[j].ok /\ doubtful' = doubtful
         \/ doubtful' = doubtful \cup job[j].at,
         faults' \in 0..MaxFaults, applied' = applied,
         UNCHANGED <<endpoint, delivery, accepted, resends>>
  PROVE  DeliveriesInv'
<1>1. job \in [Jobs -> JobState] /\ doubtful \subseteq Endpoints
  BY DEF IInv, DeliveriesInv, DeliveriesTypeOK
<1>2. job'[j] = new /\ \A k \in Jobs \ {j} : job'[k] = job[k]
  BY <1>1
<1>3. DeliveriesTypeOK'
  <2>1. job[j].at \subseteq Endpoints
    BY <1>1 DEF JobState
  <2> QED
    BY <2>1 DEF IInv, DeliveriesInv, DeliveriesTypeOK
<1>4. JobsFit' /\ DeletedHasNoRow'
  BY <1>2 DEF IInv, DeliveriesInv, JobsFit, DeletedHasNoRow
<1>5. NothingBeforeApplied'
  BY <1>2 DEF IInv, DeliveriesInv, NothingBeforeApplied
<1>6. DoubtIsNoted'
  <2> SUFFICES ASSUME NEW f \in Endpoints, f \notin doubtful' PROVE Undoubted(f)'
    BY DEF DoubtIsNoted
  <2>1. f \notin doubtful /\ Undoubted(f)
    BY DEF IInv, DeliveriesInv, DoubtIsNoted
  <2>2. \A k \in Jobs : job'[k].batch = job[k].batch
    BY <1>2
  <2>3. \A k \in Jobs : Told(k, f) => Told(k, f)'
    BY <1>2 DEF Told
  <2> QED
    BY <2>1, <2>2, <2>3 DEF Undoubted
<1> QED
  BY <1>3, <1>4, <1>5, <1>6 DEF DeliveriesInv

LEMMA ReadDeliveryInv ==
  ASSUME IInv, NEW j \in Jobs, ReadDelivery(j), applied' = applied PROVE DeliveriesInv'
<1>1. PICK e \in job[j].at :
        job' = [job EXCEPT ![j] = [@ EXCEPT !.pc = "recording",
                                            !.attempts = delivery[e].attempts + 1]]
  BY DEF ReadDelivery
<1>2. job[j] \in JobState /\ e \in Endpoints /\ delivery[e].attempts \in Nat
      /\ faults \in 0..MaxFaults
  BY DEF IInv, DeliveriesInv, DeliveriesTypeOK, JobState, DeliveryRow
<1> DEFINE new == [job[j] EXCEPT !.pc = "recording", !.attempts = delivery[e].attempts + 1]
<1>3. /\ new \in JobState /\ new.pc = "recording" /\ new.batch = job[j].batch
      /\ new.at = job[j].at /\ new.ok = job[j].ok
  <2>1. \A r \in JobState, m \in Nat :
          LET s == [r EXCEPT !.pc = "recording", !.attempts = m]
          IN /\ s \in JobState /\ s.pc = "recording" /\ s.batch = r.batch
             /\ s.at = r.at /\ s.ok = r.ok
    BY DEF JobState
  <2>2. delivery[e].attempts + 1 \in Nat
    BY <1>2
  <2> QED
    BY <1>2, <2>1, <2>2
<1>4. job' = [job EXCEPT ![j] = new]
  BY <1>1
<1> HIDE DEF new
<1> QED
  BY <1>2, <1>3, <1>4, RecordingInv DEF ReadDelivery

LEMMA RecordThrowsInv ==
  ASSUME IInv, NEW j \in Jobs, RecordThrows(j), applied' = applied PROVE DeliveriesInv'
<1> DEFINE new == [job[j] EXCEPT !.pc = "answered", !.ok = FALSE]
<1>1. job[j] \in JobState /\ faults' \in 0..MaxFaults
  BY DeliveriesAssumption DEF IInv, DeliveriesInv, DeliveriesTypeOK, RecordThrows
<1>2. new \in JobState /\ new.pc = "answered" /\ new.batch = job[j].batch /\ new.at = job[j].at
  <2>1. \A r \in JobState :
          LET s == [r EXCEPT !.pc = "answered", !.ok = FALSE]
          IN s \in JobState /\ s.pc = "answered" /\ s.batch = r.batch /\ s.at = r.at
    BY DEF JobState
  <2> QED
    BY <1>1, <2>1
<1>3. job' = [job EXCEPT ![j] = new]
  BY DEF RecordThrows
<1> HIDE DEF new
<1> QED
  BY <1>1, <1>2, <1>3, RecordingInv DEF RecordThrows

\* The job writes what it makes of the row and goes on, or stops.
LEMMA WriteDeliveryInv ==
  ASSUME IInv, NEW j \in Jobs, WriteDelivery(j), applied' = applied PROVE DeliveriesInv'
<1>1. PICK e \in job[j].at :
        /\ endpoint[e] # "deleted"
        /\ delivery' = [delivery EXCEPT ![e] = Recorded(job[j].ok, job[j].attempts)]
        /\ NextOnList(j, e)
  BY DEF WriteDelivery
<1>2. /\ job \in [Jobs -> JobState] /\ job[j] \in JobState /\ job[j].at \subseteq job[j].batch
      /\ e \in Endpoints /\ delivery \in [Endpoints -> DeliveryRow]
      /\ \A f \in job[j].at : f = e
  BY DEF IInv, DeliveriesInv, DeliveriesTypeOK, JobState, JobsFit
<1>3. PICK new \in JobState :
        /\ job' = [job EXCEPT ![j] = new] /\ new.at = {} /\ new.batch = job[j].batch \ {e}
        /\ new.pc = "idle" => new.batch = {}
  <2>2. IdleJob \in JobState /\ IdleJob.at = {} /\ IdleJob.batch = {}
    BY DEF JobState, IdleJob
  <2>3. job[j].batch \in SUBSET Endpoints /\ job[j].open \in SUBSET Endpoints
    BY <1>2 DEF JobState
  <2>4. CASE job[j].batch \ {e} = {}
    BY <1>1, <2>2, <2>4 DEF NextOnList
  <2>5. CASE job[j].batch \ {e} # {}
    <3> DEFINE n == [IdleJob EXCEPT !.pc = "working", !.batch = job[j].batch \ {e},
                                    !.open = job[j].open]
    <3>0. job[j].batch \ {e} \in SUBSET Endpoints
      BY <2>3
    <3>1. n \in JobState /\ n.at = {} /\ n.batch = job[j].batch \ {e} /\ n.pc = "working"
      BY <2>3, <3>0 DEF JobState, IdleJob
    <3>2. job' = [job EXCEPT ![j] = n]
      BY <1>1, <2>5 DEF NextOnList
    <3> HIDE DEF n
    <3> QED
      BY <3>1, <3>2
  <2> QED
    BY <2>4, <2>5
<1>4. job'[j] = new /\ \A k \in Jobs \ {j} : job'[k] = job[k]
  BY <1>2, <1>3
<1>5. Recorded(job[j].ok, job[j].attempts) \in DeliveryRow
  <2>1. \A ok \in BOOLEAN, n \in Nat : Recorded(ok, n) \in DeliveryRow
    BY DEF Recorded, DeliveryRow
  <2> QED
    BY <1>2, <2>1 DEF JobState
<1>6. DeliveriesTypeOK'
  BY <1>1, <1>2, <1>3, <1>5 DEF IInv, DeliveriesInv, DeliveriesTypeOK, WriteDelivery
<1>7. JobsFit' /\ DeletedHasNoRow'
  BY <1>1, <1>2, <1>3, <1>4
  DEF IInv, DeliveriesInv, JobsFit, DeletedHasNoRow, WriteDelivery
<1>8. NothingBeforeApplied'
  BY <1>2 DEF IInv, DeliveriesInv, NothingBeforeApplied
<1>9. DoubtIsNoted'
  <2>0. UNCHANGED <<endpoint, accepted, doubtful>>
    BY DEF WriteDelivery
  <2> SUFFICES ASSUME NEW f \in Endpoints, f \notin doubtful PROVE Undoubted(f)'
    BY <2>0 DEF DoubtIsNoted
  <2>1. Undoubted(f)
    BY DEF IInv, DeliveriesInv, DoubtIsNoted
  <2>2. \A k \in Jobs : f \in job'[k].batch => f \in job[k].batch /\ (k = j => f # e)
    BY <1>3, <1>4
  <2>3. f # e /\ f \in job[j].batch => accepted[f] = 0
    BY <1>2, <2>2, NotToldHasNotSent DEF Told
  <2>4. accepted[f] = 1 => \A k \in Jobs : f \in job'[k].batch => Told(k, f)'
    BY <1>3, <1>4, <2>1, <2>2, <2>3 DEF Undoubted, Told
  <2>5. ASSUME accepted[f] = 1, delivery'[f].status = "PENDING"
        PROVE \E k \in Jobs : f \in job'[k].batch
    <3>1. CASE f = e
      <4>1. Told(j, e)
        BY <1>2, <2>1, <2>5, <3>1 DEF Undoubted
      <4>2. delivery'[e].status = "DELIVERED"
        BY <1>1, <1>2, <4>1 DEF Told, Recorded
      <4> QED
        BY <2>5, <3>1, <4>2
    <3>2. CASE f # e
      <4>1. delivery'[f] = delivery[f]
        BY <1>1, <1>2, <3>2
      <4>2. PICK k \in Jobs : f \in job[k].batch
        BY <2>1, <2>5, <4>1 DEF Undoubted
      <4>3. k # j
        BY <2>3, <2>5, <3>2, <4>2
      <4> QED
        BY <1>4, <4>2, <4>3
    <3> QED
      BY <3>1, <3>2
  <2> QED
    BY <2>0, <2>1, <2>2, <2>4, <2>5 DEF Undoubted
<1> QED
  BY <1>6, <1>7, <1>8, <1>9 DEF DeliveriesInv

\* A job that stops leaves nothing on a list; what it knew and did not record is in doubt.
LEMMA AbandonInv ==
  ASSUME IInv, NEW j \in Jobs, Abandon(j), applied' = applied,
         doubtful' \subseteq Endpoints, doubtful \subseteq doubtful',
         \A e \in job[j].at : job[j].ok => e \in doubtful' \/ endpoint[e] = "deleted",
         faults' \in 0..MaxFaults, UNCHANGED <<endpoint, delivery, accepted, resends>>
  PROVE  DeliveriesInv'
<1>1. job \in [Jobs -> JobState]
  BY DEF IInv, DeliveriesInv, DeliveriesTypeOK
<1>2. IdleJob \in JobState /\ IdleJob.at = {} /\ IdleJob.batch = {}
  BY DEF JobState, IdleJob
<1>3. job'[j] = IdleJob /\ \A k \in Jobs \ {j} : job'[k] = job[k]
  BY <1>1 DEF Abandon
<1>4. DeliveriesTypeOK'
  BY <1>2 DEF IInv, DeliveriesInv, DeliveriesTypeOK, Abandon
<1>5. JobsFit' /\ DeletedHasNoRow'
  BY <1>2, <1>3 DEF IInv, DeliveriesInv, JobsFit, DeletedHasNoRow
<1>6. NothingBeforeApplied'
  BY <1>2, <1>3 DEF IInv, DeliveriesInv, NothingBeforeApplied
<1>7. DoubtIsNoted'
  <2> SUFFICES ASSUME NEW f \in Endpoints, f \notin doubtful' PROVE Undoubted(f)'
    BY DEF DoubtIsNoted
  <2>1. f \notin doubtful /\ Undoubted(f)
    BY DEF IInv, DeliveriesInv, DoubtIsNoted
  <2>2. \A k \in Jobs : f \in job'[k].batch => k # j /\ f \in job[k].batch
    BY <1>2, <1>3
  <2>3. \A k \in Jobs : k # j => (Told(k, f) <=> Told(k, f)')
    BY <1>3 DEF Told
  <2>4. ASSUME accepted[f] = 1, delivery[f].status = "PENDING"
        PROVE \E k \in Jobs : f \in job'[k].batch
    <3>1. PICK k \in Jobs : f \in job[k].batch /\ Told(k, f)
      BY <2>1, <2>4 DEF Undoubted
    <3>2. endpoint[f] # "deleted"
      BY <2>4 DEF IInv, DeliveriesInv, DeletedHasNoRow
    <3>3. k # j
      BY <3>1, <3>2 DEF Told
    <3> QED
      BY <1>3, <3>1, <3>3
  <2> QED
    BY <2>1, <2>2, <2>3, <2>4 DEF Undoubted
<1> QED
  BY <1>4, <1>5, <1>6, <1>7 DEF DeliveriesInv

LEMMA DeliverInv ==
  ASSUME IInv, NEW j \in Jobs, Deliver(j), applied' = applied PROVE DeliveriesInv'
<1>0. faults \in 0..MaxFaults /\ doubtful \subseteq Endpoints
  BY DEF IInv, DeliveriesInv, DeliveriesTypeOK
<1>1. CASE ListDue(j)
  BY <1>1, ListDueInv
<1>2. ASSUME NEW e \in Endpoints, FindDisabled(j, e) PROVE DeliveriesInv'
  BY <1>2, AnsweredInv DEF FindDisabled
<1>3. ASSUME NEW e \in Endpoints, PostAccepted(j, e) PROVE DeliveriesInv'
  BY <1>3, AnsweredInv DEF PostAccepted
<1>4. ASSUME NEW e \in Endpoints, PostRefused(j, e) PROVE DeliveriesInv'
  BY <1>4, AnsweredInv DEF PostRefused
<1>5. ASSUME NEW e \in Endpoints, PostAnswerLost(j, e) PROVE DeliveriesInv'
  BY <1>5, AnsweredInv DEF PostAnswerLost
<1>6. CASE ReadDelivery(j)
  BY <1>6, ReadDeliveryInv
<1>7. CASE WriteDelivery(j)
  BY <1>7, WriteDeliveryInv
<1>8. CASE RowGone(j)
  <2>1. \A e \in job[j].at : endpoint[e] = "deleted"
    BY <1>8 DEF RowGone, IInv, DeliveriesInv, JobsFit
  <2> QED
    BY <1>0, <1>8, <2>1, AbandonInv DEF RowGone
<1> QED
  BY <1>1, <1>2, <1>3, <1>4, <1>5, <1>6, <1>7, <1>8 DEF Deliver

LEMMA JobDiesInv ==
  ASSUME IInv, NEW j \in Jobs, JobDies(j), applied' = applied PROVE DeliveriesInv'
<1>1. /\ faults' \in 0..MaxFaults /\ doubtful \subseteq Endpoints /\ job[j].at \subseteq Endpoints
  BY DeliveriesAssumption DEF JobDies, IInv, DeliveriesInv, DeliveriesTypeOK, JobState
<1>2. /\ doubtful' \subseteq Endpoints /\ doubtful \subseteq doubtful'
      /\ \A e \in job[j].at : job[j].ok => e \in doubtful'
  BY <1>1 DEF JobDies
<1> QED
  BY <1>1, <1>2, AbandonInv DEF JobDies

-----------------------------------------------------------------------------
(* What else happens to the rows. *)

LEMMA BecomesDueInv ==
  ASSUME IInv, NEW e \in Endpoints, BecomesDue(e), applied' = applied PROVE DeliveriesInv'
<1>1. delivery \in [Endpoints -> DeliveryRow]
  BY DEF IInv, DeliveriesInv, DeliveriesTypeOK
<1>2. \A r \in DeliveryRow : /\ [r EXCEPT !.due = TRUE] \in DeliveryRow
                             /\ [r EXCEPT !.due = TRUE].status = r.status
  BY DEF DeliveryRow
<1>3. delivery' = [delivery EXCEPT ![e] = [delivery[e] EXCEPT !.due = TRUE]]
  BY DEF BecomesDue
<1>4. delivery' \in [Endpoints -> DeliveryRow]
      /\ \A f \in Endpoints : delivery'[f].status = delivery[f].status
  BY <1>1, <1>2, <1>3
<1>5. DeliveriesTypeOK'
  BY <1>4 DEF IInv, DeliveriesInv, DeliveriesTypeOK, BecomesDue
<1>6. JobsFit' /\ DeletedHasNoRow' /\ NothingBeforeApplied'
  BY <1>4 DEF IInv, DeliveriesInv, JobsFit, DeletedHasNoRow, NothingBeforeApplied, BecomesDue
<1>7. DoubtIsNoted'
  BY <1>4 DEF IInv, DeliveriesInv, DoubtIsNoted, Undoubted, Told, BecomesDue
<1> QED
  BY <1>5, <1>6, <1>7 DEF DeliveriesInv

LEMMA MerchantInv ==
  ASSUME IInv, NEW e \in Endpoints, Merchant(e), applied' = applied PROVE DeliveriesInv'
<1>1. /\ delivery \in [Endpoints -> DeliveryRow] /\ doubtful \subseteq Endpoints
      /\ endpoint \in [Endpoints -> {"enabled", "disabled", "deleted"}]
  BY DEF IInv, DeliveriesInv, DeliveriesTypeOK
<1>2. CASE Resend(e)
  <2>1. \A r \in DeliveryRow : [r EXCEPT !.status = "PENDING", !.due = TRUE] \in DeliveryRow
    BY DEF DeliveryRow
  <2>2. delivery' \in [Endpoints -> DeliveryRow]
        /\ \A f \in Endpoints \ {e} : delivery'[f] = delivery[f]
    BY <1>1, <1>2, <2>1 DEF Resend
  <2>3. DeliveriesTypeOK'
    BY <1>2, <2>2, DeliveriesAssumption DEF IInv, DeliveriesInv, DeliveriesTypeOK, Resend
  <2>4. JobsFit' /\ DeletedHasNoRow' /\ NothingBeforeApplied'
    BY <1>2, <2>2
    DEF IInv, DeliveriesInv, JobsFit, DeletedHasNoRow, NothingBeforeApplied, Resend
  <2>5. DoubtIsNoted'
    BY <1>2, <2>2 DEF IInv, DeliveriesInv, DoubtIsNoted, Undoubted, Told, Resend
  <2> QED
    BY <2>3, <2>4, <2>5 DEF DeliveriesInv
<1>3. CASE Toggle(e)
  <2>1. DeliveriesTypeOK'
    BY <1>3 DEF IInv, DeliveriesInv, DeliveriesTypeOK, Toggle
  <2>2. JobsFit' /\ DeletedHasNoRow' /\ NothingBeforeApplied'
    BY <1>1, <1>3
    DEF IInv, DeliveriesInv, JobsFit, DeletedHasNoRow, NothingBeforeApplied, Toggle
  <2>3. DoubtIsNoted'
    BY <1>3 DEF IInv, DeliveriesInv, DoubtIsNoted, Undoubted, Told, Toggle
  <2> QED
    BY <2>1, <2>2, <2>3 DEF DeliveriesInv
<1>4. CASE DeleteEndpoint(e)
  <2>1. NoDelivery \in DeliveryRow /\ NoDelivery.status = "NONE"
    BY DEF NoDelivery, DeliveryRow
  <2>2. /\ delivery' \in [Endpoints -> DeliveryRow] /\ delivery'[e].status = "NONE"
        /\ \A f \in Endpoints \ {e} : delivery'[f] = delivery[f]
    BY <1>1, <1>4, <2>1 DEF DeleteEndpoint
  <2>3. DeliveriesTypeOK'
    BY <1>4, <2>2 DEF IInv, DeliveriesInv, DeliveriesTypeOK, DeleteEndpoint
  <2>4. JobsFit' /\ DeletedHasNoRow' /\ NothingBeforeApplied'
    BY <1>1, <1>4, <2>2
    DEF IInv, DeliveriesInv, JobsFit, DeletedHasNoRow, NothingBeforeApplied, DeleteEndpoint
  <2>5. DoubtIsNoted'
    BY <1>4, <2>2 DEF IInv, DeliveriesInv, DoubtIsNoted, Undoubted, Told, DeleteEndpoint
  <2> QED
    BY <2>3, <2>4, <2>5 DEF DeliveriesInv
<1> QED
  BY <1>2, <1>3, <1>4 DEF Merchant

\* The first application enqueues, when nothing has been sent yet.
LEMMA ApplyInv ==
  ASSUME IInv, NEW h \in Handlers, Apply(h) PROVE DeliveriesInv'
<1>1. CASE applied
  <2>1. UNCHANGED deliveryVars /\ applied' = applied
    BY <1>1 DEF Apply, deliveryVars
  <2> QED
    BY <2>1, IntakeInv
<1>2. CASE ~applied
  <2>1. /\ applied' = TRUE /\ Enqueue
        /\ UNCHANGED <<endpoint, job, accepted, doubtful, resends, faults>>
    BY <1>2 DEF Apply
  <2>2. [status |-> "PENDING", attempts |-> 0, due |-> TRUE] \in DeliveryRow
    BY DEF DeliveryRow
  <2>3. DeliveriesTypeOK'
    BY <2>1, <2>2 DEF IInv, DeliveriesInv, DeliveriesTypeOK, Enqueue
  <2>4. JobsFit' /\ DeletedHasNoRow' /\ NothingBeforeApplied'
    BY <2>1 DEF IInv, DeliveriesInv, JobsFit, DeletedHasNoRow, NothingBeforeApplied, Enqueue
  <2>5. DoubtIsNoted'
    BY <1>2, <2>1 DEF IInv, DeliveriesInv, DoubtIsNoted, Undoubted, NothingBeforeApplied
  <2> QED
    BY <2>3, <2>4, <2>5 DEF DeliveriesInv
<1> QED
  BY <1>1, <1>2 DEF IInv, TypeOK

-----------------------------------------------------------------------------
(* The requests. *)

LEMMA HandleInv ==
  ASSUME IInv, NEW h \in Handlers, Arrives(h) \/ Handle(h) \/ Throws(h) \/ HandlerDies(h)
  PROVE  IInv'
<1>1. DeliveriesInv'
  <2>1. CASE Apply(h)
    BY <2>1, ApplyInv
  <2>2. CASE \/ Arrives(h) \/ AnswerDuplicate(h) \/ LookUp(h) \/ Record(h)
             \/ RecordConflicts(h) \/ MarkProcessed(h) \/ MarkFailed(h)
    <3>1. UNCHANGED deliveryVars /\ applied' = applied
      BY <2>2 DEF Arrives, AnswerDuplicate, LookUp, Record, RecordConflicts, MarkProcessed,
                  MarkFailed
    <3> QED
      BY <3>1, IntakeInv
  <2>3. CASE Throws(h) \/ HandlerDies(h)
    BY <2>3, FaultInv DEF Throws, HandlerDies
  <2> QED
    BY <2>1, <2>2, <2>3 DEF Handle
<1>2. TypeOK'
  <2>1. DeliveriesTypeOK'
    BY <1>1 DEF DeliveriesInv
  <2>2. handler' \in [Handlers -> {"idle", "verified", "new", "again", "processing", "handled",
                                   "throwing"}]
    BY DEF IInv, TypeOK, Goes, Arrives, Handle, AnswerDuplicate, LookUp, Record, RecordConflicts,
           Apply, MarkProcessed, MarkFailed, Throws, HandlerDies
  <2>3. event' \in {"NONE", "PROCESSING", "PROCESSED", "FAILED"}
        /\ acknowledged' \in BOOLEAN /\ applied' \in BOOLEAN
    BY DEF IInv, TypeOK, Arrives, Handle, AnswerDuplicate, LookUp, Record, RecordConflicts,
           Apply, MarkProcessed, MarkFailed, Throws, HandlerDies
  <2>4. overlooked' \in BOOLEAN
    BY DEF IInv, TypeOK, Arrives, Handle, AnswerDuplicate, LookUp, Record, RecordConflicts,
           Apply, MarkProcessed, MarkFailed, Throws, HandlerDies
  <2>5. replays' \in 0..MaxReplays
    BY WebhooksAssumption
    DEF IInv, TypeOK, Arrives, Handle, AnswerDuplicate, LookUp, Record, RecordConflicts,
        Apply, MarkProcessed, MarkFailed, Throws, HandlerDies
  <2> QED
    BY <2>1, <2>2, <2>3, <2>4, <2>5 DEF TypeOK
<1>3. IntakeFits'
  BY DEF IInv, TypeOK, IntakeFits, Goes, Arrives, Handle, AnswerDuplicate, LookUp, Record,
         RecordConflicts, Apply, MarkProcessed, MarkFailed, Throws, HandlerDies
<1>4. AcknowledgedIsApplied'
  BY DEF IInv, TypeOK, IntakeFits, AcknowledgedIsApplied, Handled, Arrives, Handle,
         AnswerDuplicate, LookUp, Record, RecordConflicts, Apply, MarkProcessed, MarkFailed,
         Throws, HandlerDies
<1> QED
  BY <1>1, <1>2, <1>3, <1>4 DEF IInv

LEMMA StepInv == IInv /\ [Next]_vars => IInv'
<1> SUFFICES ASSUME IInv, [Next]_vars PROVE IInv'
  OBVIOUS
<1>1. ASSUME NEW h \in Handlers, Arrives(h) \/ Handle(h) \/ Throws(h) \/ HandlerDies(h)
      PROVE IInv'
  BY <1>1, HandleInv
<1>2. ASSUME DeliveriesInv', UNCHANGED intakeVars PROVE IInv'
  BY <1>2 DEF IInv, TypeOK, DeliveriesInv, IntakeFits, AcknowledgedIsApplied, intakeVars
<1>3. ASSUME NEW j \in Jobs, Deliver(j) \/ RecordThrows(j) \/ JobDies(j), UNCHANGED intakeVars
      PROVE IInv'
  BY <1>2, <1>3, DeliverInv, RecordThrowsInv, JobDiesInv DEF intakeVars
<1>4. ASSUME NEW e \in Endpoints, BecomesDue(e) \/ Merchant(e), UNCHANGED intakeVars
      PROVE IInv'
  BY <1>2, <1>4, BecomesDueInv, MerchantInv DEF intakeVars
<1>5. CASE UNCHANGED vars
  <2>1. UNCHANGED deliveryVars /\ UNCHANGED intakeVars
    BY <1>5 DEF vars, deliveryVars, intakeVars
  <2> QED
    BY <1>2, <2>1, IntakeInv DEF intakeVars
<1> QED
  BY <1>1, <1>3, <1>4, <1>5 DEF Next

LEMMA Invariance == Spec => []IInv
<1> QED
  BY InitInv, StepInv, PTL DEF Spec

-----------------------------------------------------------------------------

\* Every reachable state has its types.
THEOREM TypeCorrect == Spec => []TypeOK
<1>1. IInv => TypeOK
  BY DEF IInv
<1> QED
  BY <1>1, Invariance, PTL

\* Whatever the provider has been told is taken care of has been applied, or somebody was
\* (or had died) processing it.
THEOREM AcknowledgementsAreTrue == Spec => []AcknowledgedIsApplied
<1>1. IInv => AcknowledgedIsApplied
  BY DEF IInv
<1> QED
  BY <1>1, Invariance, PTL

\* Any number of delivery jobs and deaths: an endpoint that has taken the event is sent it
\* again only if that was in doubt.
THEOREM TakenOnceUnlessInDoubt == Spec => []TakenAgainOnlyInDoubt
<1>1. IInv => TakenAgainOnlyInDoubt
  <2> SUFFICES ASSUME IInv, NEW e \in Endpoints, accepted[e] > 1, e \notin doubtful
               PROVE FALSE
    BY DEF TakenAgainOnlyInDoubt
  <2>1. Undoubted(e) /\ accepted[e] \in 0..2
    BY DEF IInv, DeliveriesInv, DeliveriesTypeOK, DoubtIsNoted
  <2> QED
    BY <2>1 DEF Undoubted
<1> QED
  BY <1>1, Invariance, PTL
=============================================================================
