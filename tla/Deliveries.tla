----------------------------- MODULE Deliveries -----------------------------
(***************************************************************************)
(* Outbound webhooks: the WebhookDelivery rows of one event, one for each  *)
(* endpoint, and the delivery jobs that send them.                         *)
(*                                                                         *)
(* A job lists the rows that are due, with their endpoints as they are     *)
(* then, and goes through its list: it calls the endpoint, reads the row   *)
(* and writes the outcome by id.  Nothing marks a row as being sent, so    *)
(* two jobs may have it on their lists.  What enqueues an event is the     *)
(* caller's (Webhooks).                                                    *)
(***************************************************************************)
EXTENDS Naturals

CONSTANTS
  Endpoints,
  Jobs,                 \* delivery jobs that may be running at the same time
  MaxDeliveryAttempts,  \* MAX_DELIVERY_ATTEMPTS
  MaxResends,           \* bound: resends asked for by the merchant
  MaxFaults             \* bound: processes that die and statements that fail

ASSUME DeliveriesAssumption ==
  /\ MaxDeliveryAttempts \in Nat \ {0} /\ MaxResends \in Nat /\ MaxFaults \in Nat

VARIABLES
  endpoint,   \* the WebhookEndpoint rows
  delivery,   \* the WebhookDelivery rows
  job,        \* delivery jobs in flight
  accepted,   \* how often each endpoint has taken the event; 2 is more than once
  doubtful,   \* endpoints that may have taken it without the row saying so
  resends,
  faults

deliveryVars == <<endpoint, delivery, job, accepted, doubtful, resends, faults>>

\* due: nextAttemptAt <= now.
DeliveryRow == [status : {"NONE", "PENDING", "DELIVERED", "FAILED"}, attempts : Nat,
                due : BOOLEAN]

NoDelivery == [status |-> "NONE", attempts |-> 0, due |-> FALSE]

\* batch: what is left of the job's list; open: those whose endpoint was enabled;
\* at: the one it is at, in a set of its own; ok and attempts: what it will write.
JobState == [pc : {"idle", "working", "answered", "recording"}, batch : SUBSET Endpoints,
             open : SUBSET Endpoints, at : SUBSET Endpoints, ok : BOOLEAN, attempts : Nat]

IdleJob == [pc |-> "idle", batch |-> {}, open |-> {}, at |-> {}, ok |-> FALSE, attempts |-> 0]

DeliveriesTypeOK ==
  /\ endpoint \in [Endpoints -> {"enabled", "disabled", "deleted"}]
  /\ delivery \in [Endpoints -> DeliveryRow]
  /\ job \in [Jobs -> JobState]
  /\ accepted \in [Endpoints -> 0..2]
  /\ doubtful \subseteq Endpoints
  /\ resends \in 0..MaxResends
  /\ faults \in 0..MaxFaults

DeliveriesInit ==
  /\ endpoint = [e \in Endpoints |-> "enabled"]
  /\ delivery = [e \in Endpoints |-> NoDelivery]
  /\ job = [j \in Jobs |-> IdleJob]
  /\ accepted = [e \in Endpoints |-> 0]
  /\ doubtful = {}
  /\ resends = 0
  /\ faults = 0

-----------------------------------------------------------------------------

\* dispatchWebhookEvent, inside the transaction of what it announces.
Enqueue ==
  delivery' = [e \in Endpoints |->
                 IF endpoint[e] = "enabled"
                 THEN [status |-> "PENDING", attempts |-> 0, due |-> TRUE] ELSE delivery[e]]

Due == {e \in Endpoints : delivery[e].status = "PENDING" /\ delivery[e].due}

OnAnotherList(j, e) == \E k \in Jobs \ {j} : e \in job[k].batch

ListDue(j) ==
  /\ job[j].pc = "idle" /\ Due # {}
  /\ job' = [job EXCEPT ![j] = [IdleJob EXCEPT
                !.pc = "working", !.batch = Due,
                !.open = {e \in Due : endpoint[e] = "enabled"}]]
  /\ doubtful' = doubtful \cup {e \in Due : OnAnotherList(j, e)}
  /\ UNCHANGED <<endpoint, delivery, accepted, resends, faults>>

Answered(j, e, ok) ==
  job' = [job EXCEPT ![j] = [@ EXCEPT !.pc = "answered", !.at = {e}, !.ok = ok]]

\* Nothing to send it to: an attempt that failed.
FindDisabled(j, e) ==
  /\ job[j].pc = "working" /\ e \in job[j].batch \ job[j].open
  /\ Answered(j, e, FALSE)
  /\ UNCHANGED <<endpoint, delivery, accepted, doubtful, resends, faults>>

Takes(e) == accepted' = [accepted EXCEPT ![e] = IF @ = 0 THEN 1 ELSE 2]

\* The endpoint takes the event, does not, or takes it and its answer is lost.
PostAccepted(j, e) ==
  /\ job[j].pc = "working" /\ e \in job[j].batch \cap job[j].open
  /\ Takes(e)
  /\ Answered(j, e, TRUE)
  /\ UNCHANGED <<endpoint, delivery, doubtful, resends, faults>>

PostRefused(j, e) ==
  /\ job[j].pc = "working" /\ e \in job[j].batch \cap job[j].open
  /\ Answered(j, e, FALSE)
  /\ UNCHANGED <<endpoint, delivery, accepted, doubtful, resends, faults>>

PostAnswerLost(j, e) ==
  /\ job[j].pc = "working" /\ e \in job[j].batch \cap job[j].open
  /\ Takes(e)
  /\ doubtful' = doubtful \cup {e}
  /\ Answered(j, e, FALSE)
  /\ UNCHANGED <<endpoint, delivery, resends, faults>>

\* recordDeliveryAttempt reads the row.
ReadDelivery(j) ==
  /\ job[j].pc = "answered"
  /\ \E e \in job[j].at :
       /\ endpoint[e] # "deleted"
       /\ job' = [job EXCEPT ![j] = [@ EXCEPT !.pc = "recording",
                                              !.attempts = delivery[e].attempts + 1]]
  /\ UNCHANGED <<endpoint, delivery, accepted, doubtful, resends, faults>>

\* nextAttemptDelayMinutes is not null.
RetryAfter(attempts) == attempts < MaxDeliveryAttempts

\* A mutant: a failure gives the attempt back.
RecordedUncounted(ok, attempts) ==
  [status |-> IF ok THEN "DELIVERED" ELSE IF RetryAfter(attempts) THEN "PENDING" ELSE "FAILED",
   attempts |-> IF ok THEN attempts ELSE attempts - 1, due |-> FALSE]

\* A mutant: a success leaves the row as it was, due later.
RecordedPending(ok, attempts) ==
  [status |-> IF RetryAfter(attempts) THEN "PENDING" ELSE "FAILED",
   attempts |-> attempts, due |-> FALSE]

\* What recordDeliveryAttempt makes of the row.
Recorded(ok, attempts) ==
  [status |-> IF ok THEN "DELIVERED" ELSE IF RetryAfter(attempts) THEN "PENDING" ELSE "FAILED",
   attempts |-> attempts, due |-> FALSE]

NextOnList(j, e) ==
  LET rest == job[j].batch \ {e} IN
  job' = [job EXCEPT ![j] =
            IF rest = {} THEN IdleJob
            ELSE [IdleJob EXCEPT !.pc = "working", !.batch = rest, !.open = job[j].open]]

WriteDelivery(j) ==
  /\ job[j].pc = "recording"
  /\ \E e \in job[j].at :
       /\ endpoint[e] # "deleted"
       /\ delivery' = [delivery EXCEPT ![e] = Recorded(job[j].ok, job[j].attempts)]
       /\ NextOnList(j, e)
  /\ UNCHANGED <<endpoint, accepted, doubtful, resends, faults>>

Abandon(j) == job' = [job EXCEPT ![j] = IdleJob]

\* The row is gone with its endpoint: the exception leaves the catch block too, and
\* the rest of the list waits for the next job.
RowGone(j) ==
  /\ job[j].pc \in {"answered", "recording"}
  /\ \E e \in job[j].at : endpoint[e] = "deleted"
  /\ Abandon(j)
  /\ UNCHANGED <<endpoint, delivery, accepted, doubtful, resends, faults>>

\* Recording a success fails, and the catch block records a failure.
RecordThrows(j) ==
  /\ job[j].pc \in {"answered", "recording"} /\ job[j].ok /\ faults < MaxFaults
  /\ job' = [job EXCEPT ![j] = [@ EXCEPT !.pc = "answered", !.ok = FALSE]]
  /\ doubtful' = doubtful \cup job[j].at
  /\ faults' = faults + 1
  /\ UNCHANGED <<endpoint, delivery, accepted, resends>>

\* The process dies, or recording a failure fails.
JobDies(j) ==
  /\ job[j].pc # "idle" /\ faults < MaxFaults
  /\ Abandon(j)
  /\ doubtful' = IF job[j].ok THEN doubtful \cup job[j].at ELSE doubtful
  /\ faults' = faults + 1
  /\ UNCHANGED <<endpoint, delivery, accepted, resends>>

BecomesDue(e) ==
  /\ delivery[e].status = "PENDING" /\ ~delivery[e].due
  /\ delivery' = [delivery EXCEPT ![e].due = TRUE]
  /\ UNCHANGED <<endpoint, job, accepted, doubtful, resends, faults>>

\* The merchant asks for it again; "giving up is not permanent".
Resend(e) ==
  /\ delivery[e].status # "NONE" /\ endpoint[e] # "deleted" /\ resends < MaxResends
  /\ delivery' = [delivery EXCEPT ![e] = [@ EXCEPT !.status = "PENDING", !.due = TRUE]]
  /\ doubtful' = doubtful \cup {e}
  /\ resends' = resends + 1
  /\ UNCHANGED <<endpoint, job, accepted, faults>>

Toggle(e) ==
  /\ endpoint[e] # "deleted"
  /\ endpoint' = [endpoint EXCEPT ![e] = IF @ = "enabled" THEN "disabled" ELSE "enabled"]
  /\ UNCHANGED <<delivery, job, accepted, doubtful, resends, faults>>

\* The rows of its deliveries go with it.
DeleteEndpoint(e) ==
  /\ endpoint[e] # "deleted"
  /\ endpoint' = [endpoint EXCEPT ![e] = "deleted"]
  /\ delivery' = [delivery EXCEPT ![e] = NoDelivery]
  /\ UNCHANGED <<job, accepted, doubtful, resends, faults>>

Deliver(j) ==
  \/ ListDue(j)
  \/ \E e \in Endpoints :
       FindDisabled(j, e) \/ PostAccepted(j, e) \/ PostRefused(j, e) \/ PostAnswerLost(j, e)
  \/ ReadDelivery(j) \/ WriteDelivery(j) \/ RowGone(j)

Merchant(e) == Resend(e) \/ Toggle(e) \/ DeleteEndpoint(e)

-----------------------------------------------------------------------------
(* Properties *)

\* An endpoint that has taken an event is sent it again only if two jobs had it on
\* their lists at once, the answer or its record was lost, or the merchant asked.
TakenAgainOnlyInDoubt == \A e \in Endpoints : accepted[e] > 1 => e \in doubtful

\* "Failure schedules the next attempt or gives up": a delivery does not stay PENDING,
\* however jobs overlap, die and write over each other.
DeliveryEnds ==
  \A e \in Endpoints : delivery[e].status = "PENDING" ~> delivery[e].status # "PENDING"

=============================================================================
