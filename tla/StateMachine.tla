---------------------------- MODULE StateMachine ----------------------------
(***************************************************************************)
(* The subscription status table of packages/billing/src/state-machine.ts *)
(* and the pure decisions other files take on a status alone.              *)
(***************************************************************************)

Status == {"INCOMPLETE", "TRIALING", "ACTIVE", "PAST_DUE", "GRACE_PERIOD",
           "PAUSED", "UNPAID", "CANCELED", "EXPIRED"}

Transitions ==
  [INCOMPLETE   |-> {"ACTIVE", "CANCELED", "EXPIRED"},
   TRIALING     |-> {"ACTIVE", "PAST_DUE", "PAUSED", "CANCELED", "EXPIRED"},
   ACTIVE       |-> {"ACTIVE", "PAST_DUE", "PAUSED", "CANCELED", "EXPIRED"},
   PAST_DUE     |-> {"GRACE_PERIOD", "ACTIVE", "UNPAID", "PAUSED", "CANCELED"},
   GRACE_PERIOD |-> {"ACTIVE", "UNPAID", "PAUSED", "CANCELED"},
   PAUSED       |-> {"ACTIVE", "CANCELED", "EXPIRED"},
   UNPAID       |-> {"ACTIVE", "CANCELED", "EXPIRED"},
   CANCELED     |-> {},
   EXPIRED      |-> {}]

TerminalStatuses == {"CANCELED", "EXPIRED"}

CanTransition(from, to) == to \in Transitions[from]

\* The statuses a fully settled invoice brings back to ACTIVE.
RecoverableStatuses ==
  {"INCOMPLETE", "TRIALING", "PAST_DUE", "GRACE_PERIOD", "UNPAID"}

\* What the organization's settings may ask for when a grace period runs out.
FailureAction == {"MARK_UNPAID", "CANCEL", "PAUSE"}

\* A mutant: the setting is written to the status column as it is.
FailureActionAsStatus ==
  [MARK_UNPAID |-> "MARK_UNPAID", CANCEL |-> "CANCEL", PAUSE |-> "PAUSE"]

StatusForFailureAction ==
  [MARK_UNPAID |-> "UNPAID", CANCEL |-> "CANCELED", PAUSE |-> "PAUSED"]

=============================================================================
