------------------------------ MODULE Webhooks ------------------------------
(***************************************************************************)
(* One payment's webhook: the provider delivers it, and redelivers it      *)
(* until it is acknowledged; handlers of POST /webhooks/:provider record   *)
(* it in the WebhookEvent row, ask the provider and apply the answer; and  *)
(* the transaction that applies it enqueues what the merchant's endpoints  *)
(* are sent (module Deliveries).                                           *)
(*                                                                         *)
(* Applying a result is one step here: its races are module Payments'.     *)
(***************************************************************************)
EXTENDS Deliveries

CONSTANTS
  Handlers,    \* requests that may be in progress at the same time
  MaxReplays   \* bound: deliveries of an event that has been acknowledged

ASSUME WebhooksAssumption == MaxReplays \in Nat

VARIABLES
  event,         \* the WebhookEvent row's status
  handler,       \* where each request is
  acknowledged,  \* whether the provider has had its 2xx
  overlooked,    \* whether that was for an event somebody else was still processing
  applied,       \* whether the result has been applied
  replays

intakeVars == <<event, handler, acknowledged, overlooked, applied, replays>>
vars == <<endpoint, delivery, job, accepted, doubtful, resends, faults,
          event, handler, acknowledged, overlooked, applied, replays>>

TypeOK ==
  /\ DeliveriesTypeOK
  /\ event \in {"NONE", "PROCESSING", "PROCESSED", "FAILED"}
  /\ handler \in [Handlers -> {"idle", "verified", "new", "again", "processing", "handled",
                               "throwing"}]
  /\ acknowledged \in BOOLEAN /\ overlooked \in BOOLEAN /\ applied \in BOOLEAN
  /\ replays \in 0..MaxReplays

Init ==
  /\ DeliveriesInit
  /\ event = "NONE"
  /\ handler = [h \in Handlers |-> "idle"]
  /\ acknowledged = FALSE /\ overlooked = FALSE /\ applied = FALSE
  /\ replays = 0

Goes(h, pc) == handler' = [handler EXCEPT ![h] = pc]

\* The provider sends the event; its signature is right and its organization known.
Arrives(h) ==
  /\ handler[h] = "idle"
  /\ acknowledged => replays < MaxReplays
  /\ replays' = IF acknowledged THEN replays + 1 ELSE replays
  /\ Goes(h, "verified")
  /\ UNCHANGED <<event, acknowledged, overlooked, applied>> /\ UNCHANGED deliveryVars

\* A mutant: an event that failed is a duplicate too.
HandledOnce == event # "NONE"

\* An event that has been handled, or that somebody is taken to be handling.
Handled == event # "NONE" /\ event # "FAILED"

AnswerDuplicate(h) ==
  /\ handler[h] = "verified" /\ Handled
  /\ acknowledged' = TRUE
  /\ overlooked' = (overlooked \/ event = "PROCESSING")
  /\ Goes(h, "idle")
  /\ UNCHANGED <<event, applied, replays>> /\ UNCHANGED deliveryVars

\* A mutant: a retry is recorded like a first delivery.
LookUpAsNew(h) ==
  /\ handler[h] = "verified" /\ ~Handled
  /\ Goes(h, "new")
  /\ UNCHANGED <<event, acknowledged, overlooked, applied, replays>> /\ UNCHANGED deliveryVars

LookUp(h) ==
  /\ handler[h] = "verified" /\ ~Handled
  /\ Goes(h, IF event = "NONE" THEN "new" ELSE "again")
  /\ UNCHANGED <<event, acknowledged, overlooked, applied, replays>> /\ UNCHANGED deliveryVars

\* The insert, for which two first deliveries compete, or the update by id, for
\* which they do not.
Record(h) ==
  /\ \/ handler[h] = "new" /\ event = "NONE"
     \/ handler[h] = "again"
  /\ event' = "PROCESSING"
  /\ Goes(h, "processing")
  /\ UNCHANGED <<acknowledged, overlooked, applied, replays>> /\ UNCHANGED deliveryVars

RecordConflicts(h) ==
  /\ handler[h] = "new" /\ event # "NONE"
  /\ Goes(h, "idle")
  /\ UNCHANGED <<event, acknowledged, overlooked, applied, replays>> /\ UNCHANGED deliveryVars

\* verifyPayment and applyPaymentResult, which leaves a settled attempt alone.
Apply(h) ==
  /\ handler[h] = "processing"
  /\ applied' = TRUE
  /\ IF applied THEN UNCHANGED delivery ELSE Enqueue
  /\ Goes(h, "handled")
  /\ UNCHANGED <<event, acknowledged, overlooked, replays>>
  /\ UNCHANGED <<endpoint, job, accepted, doubtful, resends, faults>>

\* The provider cannot be asked, the transaction is rolled back, or the last
\* statement of the handler fails.
Throws(h) ==
  /\ handler[h] \in {"processing", "handled"} /\ faults < MaxFaults
  /\ faults' = faults + 1
  /\ Goes(h, "throwing")
  /\ UNCHANGED <<event, acknowledged, overlooked, applied, replays>>
  /\ UNCHANGED <<endpoint, delivery, job, accepted, doubtful, resends>>

MarkProcessed(h) ==
  /\ handler[h] = "handled"
  /\ event' = "PROCESSED"
  /\ acknowledged' = TRUE
  /\ Goes(h, "idle")
  /\ UNCHANGED <<overlooked, applied, replays>> /\ UNCHANGED deliveryVars

\* A mutant: the event is put back to what the schema starts it with.
MarkReceived(h) ==
  /\ handler[h] = "throwing"
  /\ event' = "RECEIVED"
  /\ Goes(h, "idle")
  /\ UNCHANGED <<acknowledged, overlooked, applied, replays>> /\ UNCHANGED deliveryVars

\* By id, whatever the row says; the provider gets an error.
MarkFailed(h) ==
  /\ handler[h] = "throwing"
  /\ event' = "FAILED"
  /\ Goes(h, "idle")
  /\ UNCHANGED <<acknowledged, overlooked, applied, replays>> /\ UNCHANGED deliveryVars

HandlerDies(h) ==
  /\ handler[h] # "idle" /\ faults < MaxFaults
  /\ faults' = faults + 1
  /\ Goes(h, "idle")
  /\ UNCHANGED <<event, acknowledged, overlooked, applied, replays>>
  /\ UNCHANGED <<endpoint, delivery, job, accepted, doubtful, resends>>

Handle(h) ==
  \/ AnswerDuplicate(h) \/ LookUp(h) \/ Record(h) \/ RecordConflicts(h)
  \/ Apply(h) \/ MarkProcessed(h) \/ MarkFailed(h)

Next ==
  \/ \E h \in Handlers : Arrives(h) \/ Handle(h) \/ Throws(h) \/ HandlerDies(h)
  \/ /\ \/ \E j \in Jobs : Deliver(j) \/ RecordThrows(j) \/ JobDies(j)
        \/ \E e \in Endpoints : BecomesDue(e) \/ Merchant(e)
     /\ UNCHANGED intakeVars

Spec == Init /\ [][Next]_vars

\* The provider redelivers until it is acknowledged, a request runs to its end, the
\* scheduler starts the job every minute and a job runs to its end, and time passes.
FairSpec ==
  /\ Spec
  /\ \A h \in Handlers : WF_vars(Handle(h)) /\ WF_vars(~acknowledged /\ Arrives(h))
  /\ \A j \in Jobs : WF_vars(Deliver(j) /\ UNCHANGED intakeVars)
  /\ \A e \in Endpoints : WF_vars(BecomesDue(e) /\ UNCHANGED intakeVars)

-----------------------------------------------------------------------------
(* Properties *)

\* A delivery the provider has been told is taken care of has been applied, unless
\* that was said of an event another request was still processing, or had died over.
AcknowledgedIsApplied == acknowledged => applied \/ overlooked

\* "One that previously failed gets exactly the retry it's asking for": with a
\* provider that goes on asking, the result is applied in the end, failures and
\* crashes notwithstanding, under the same proviso.
EventIsApplied == <>(applied \/ overlooked)

=============================================================================
