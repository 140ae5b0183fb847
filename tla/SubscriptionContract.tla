------------------------ MODULE SubscriptionContract ------------------------
(***************************************************************************)
(* What the billing engine promises about one subscription, with none of   *)
(* the machinery that keeps the promise.  A subscription is in one of six  *)
(* stages, and the only outside fact that matters is which charges the     *)
(* payment provider has really collected:                                  *)
(*   - a sign-up starts being served only once money has been collected;   *)
(*   - only somebody who was served, or on trial, can lapse;               *)
(*   - somebody who lapsed is served again only once money has been        *)
(*     collected, or by resuming a pause;                                  *)
(*   - an ended subscription stays ended, whatever is collected afterwards.*)
(***************************************************************************)
CONSTANT Charge

VARIABLES stage, collected

cvars == <<stage, collected>>

Stage == {"signup", "trial", "served", "lapsed", "paused", "ended"}

CInit ==
  /\ stage \in {"signup", "trial", "served"}
  /\ collected = {}

\* The provider collects a charge; no subscription moves because of that alone.
Collect ==
  /\ \E c \in Charge : collected' = collected \cup {c}
  /\ UNCHANGED stage

Serve ==
  /\ stage \in {"signup", "trial", "lapsed"}
  /\ collected # {}
  /\ stage' = "served"
  /\ UNCHANGED collected

Lapse ==
  /\ stage \in {"trial", "served"}
  /\ stage' = "lapsed"
  /\ UNCHANGED collected

Pause ==
  /\ stage \in {"trial", "served", "lapsed"}
  /\ stage' = "paused"
  /\ UNCHANGED collected

Resume ==
  /\ stage = "paused"
  /\ stage' = "served"
  /\ UNCHANGED collected

End ==
  /\ stage # "ended"
  /\ stage' = "ended"
  /\ UNCHANGED collected

CNext == Collect \/ Serve \/ Lapse \/ Pause \/ Resume \/ End

CSpec == CInit /\ [][CNext]_cvars

=============================================================================
